---- MODULE Spec2Model ----
(***************************************************************************)
(* quote-cards: the incremental build orchestrator (internal/build),       *)
(* the manifest store (internal/manifest) and the helpers they use.        *)
(*                                                                         *)
(* One run of the CLI is one call of Execute.  Execute is modelled phase   *)
(* by phase (pc), because every phase does file-system I/O that may fail   *)
(* and abort the run; what is on disk when a run aborts is what the next   *)
(* run starts from.  Between two runs the process exits and its locals     *)
(* are gone; only the disk survives.                                       *)
(*                                                                         *)
(* Conventions                                                             *)
(*   <<>>   a nil pointer, an absent optional value, an empty map          *)
(*   <<v>>  a non-nil pointer to v                                         *)
(*   a Go map is a function whose DOMAIN is the key set                    *)
(*   a hash is the tagged value it was computed from (no collisions)       *)
(***************************************************************************)
EXTENDS Integers, Sequences, FiniteSets, TLC

VARIABLES
    \* ---- the disk -----------------------------------------------------
    fs,             \* the output root and the manifest file:
                    \*   cards    cards/<id>.jpg : id -> image bytes
                    \*   wrappers q/<id>/index.html : id -> html
                    \*   sources  sources/<domain>/<slug>/index.html :
                    \*            path -> html
                    \*   manifest build-manifest.json : [state, data]
                    \* (a directory is there when it holds a file)
    \* ---- the running process ------------------------------------------
    pc,             \* position in Execute
    cfg,            \* Config (BasePath, SiteOrigin, CardVersion, Force)
    quoteList,      \* the records handed to Execute
    static,         \* the assets and versions compiled into the binary
    cli,            \* the command line and the quotes directory of a run
                    \* that was started on files: [check, dir]
    man,            \* Execute's local man (*manifest.Manifest)
    plan,           \* Execute's locals computed in lines 102-183
    result,         \* Execute's local result (*Result)
    outcome,        \* what Execute returned: an error, or Result and Manifest
    \* ---- history and environment --------------------------------------
    loaded,         \* what manifest.Load returned at the start of the run
    begun,          \* the manifest file the run started on, the number of
                    \* aborted runs at that time and, where the world keeps
                    \* track of it, whether the output trees were empty and
                    \* what the run leaves on disk if none of its steps fails
    last,           \* the run before this one: its inputs and how it ended;
                    \* where the world keeps track of it, the latest run
                    \* without Force that found no manifest file and returned
    faults,         \* how many runs an I/O or render error has aborted
    world,          \* the inputs the environment may hand to a run
    \* ---- internal/render: the cache of font faces ----------------------
    faceCache,      \* the package variable: [mutex, faces], mutex the
                    \* goroutine that holds the lock, faces : size -> face
    goroutines,     \* the goroutines that call getFontFace: for each its
                    \* position in the call, the size asked for, its local
                    \* face and what the call returned
    constructed     \* the faces truetype.NewFace has made so far

inputs == <<cfg, quoteList, static, cli>>
locals == <<man, plan, result, loaded>>
fonts  == <<faceCache, goroutines, constructed>>
build  == <<fs, pc, cfg, quoteList, static, cli, man, plan, result, outcome, loaded,
            begun, last, faults, world>>
vars   == <<fs, pc, cfg, quoteList, static, cli, man, plan, result, outcome, loaded,
            begun, last, faults, world, faceCache, goroutines, constructed>>

Nil == <<>>

\* Longest record list a run is given.
MaxRecords == 2

\* Most files a quotes directory holds.
MaxFiles == 3

\* How many goroutines call getFontFace at a time.
MaxGoroutines == 3

\* How many runs of a behaviour an I/O or render error aborts.
MaxFaults == 1

(***************************************************************************)
(* Go maps                                                                 *)
(***************************************************************************)
EmptyMap == <<>>

Has(m, k) == k \in DOMAIN m

MapPut(m, k, v) == [x \in (DOMAIN m) \cup {k} |-> IF x = k THEN v ELSE m[x]]

MapDel(m, ks) == [x \in (DOMAIN m) \ ks |-> m[x]]

(***************************************************************************)
(* internal/util                                                           *)
(***************************************************************************)
HashBytes(data) == <<"sha256", data>>

HashJSON(value) == HashBytes(<<"json", value>>)

HashStrings(parts) == HashJSON(parts)

\* htmlEscaper rewrites & < > " ' .  The strings of the model that hold
\* one of them, and what it makes of them; it leaves the others as they are.
Escaped ==
    << <<"Q&A", "Q&amp;A">>,
       <<"From Q&A by n", "From Q&amp;A by n">>,
       <<"Q&A - a", "Q&amp;A - a">> >>

EscapeHTML(value) ==
    IF \E i \in 1..Len(Escaped) : Escaped[i][1] = value
    THEN Escaped[CHOOSE i \in 1..Len(Escaped) : Escaped[i][1] = value][2]
    ELSE value

(***************************************************************************)
(* Strings: sort.Strings and strings.Join                                  *)
(***************************************************************************)
\* The strings that occur as tags, as ids and as paths of quote files, in
\* the byte order sort.Strings uses.
StringOrder ==
    << "", "a", "a.md", "a|b", "b", "b.md", "c", "c.md", "d.md", "e.md", "f.md", "g.md",
       "q1", "q2", "q3", "q4", "q5" >>

StringRank(s) == CHOOSE i \in 1..Len(StringOrder) : StringOrder[i] = s

RECURSIVE InsertString(_, _)
InsertString(sorted, s) ==
    IF sorted = <<>> THEN <<s>>
    ELSE IF StringRank(s) < StringRank(Head(sorted)) THEN <<s>> \o sorted
    ELSE <<Head(sorted)>> \o InsertString(Tail(sorted), s)

RECURSIVE SortStrings(_)
SortStrings(list) ==
    IF list = <<>> THEN <<>>
    ELSE InsertString(SortStrings(Tail(list)), Head(list))

RECURSIVE JoinStrings(_, _)
JoinStrings(list, sep) ==
    IF list = <<>> THEN ""
    ELSE IF Len(list) = 1 THEN list[1]
    ELSE list[1] \o sep \o JoinStrings(Tail(list), sep)

\* time.Unix(sec, nsec): a time.Time, the seconds since the epoch and the
\* nanoseconds within the second.
Unix(sec, nsec) == [sec |-> sec, nsec |-> nsec]

\* time.Time.UTC().Format(time.RFC3339): the layout has no fraction of a
\* second.
FormatRFC3339(t) == ToString(t.sec) \o "Z"

(***************************************************************************)
(* internal/html and internal/render, as far as the orchestrator sees them *)
(***************************************************************************)
\* html.Apply substitutes the payload into the template: the page is a
\* function of the two.
Apply(template, data) == [template |-> template, data |-> data]

\* The constants of the card.  QuoteLineHeight is 1.32: in hundredths.
CardWidth == 1200

CardHeight == 628

CardPaddingX == 150

CardPaddingY == 120

QuoteFontMax == 72

QuoteFontMin == 36

QuoteFontStep == 2

QuoteLineHeight == 132

\* n words of one width.
Rep(n, w) == [i \in 1..n |-> w]

\* The display text of a quote, the quote in quotation marks with its white
\* space normalized, as the face measures it: the advance width of each
\* of its words in hundredths of the font size.  A text that is not named
\* is one short word.
Layouts ==
    << <<"t1", Rep(3, 300)>>, <<"t2", Rep(5, 1300)>>, <<"t3", Rep(9, 1300)>>,
       <<"t4", Rep(13, 300)>>, <<"t5", Rep(12, 300)>> >>

Display(text) ==
    IF \E i \in 1..Len(Layouts) : Layouts[i][1] = text
    THEN Layouts[CHOOSE i \in 1..Len(Layouts) : Layouts[i][1] = text][2]
    ELSE <<300>>

\* The advance width of a space, in hundredths of the font size.
SpaceWidth == 25

\* gg.Context.WordWrap, one turn of its loop over the words: acc is the
\* lines done and the width x of the line in the making (0: none yet), the
\* space after its last word included.  A word that widens the line beyond
\* width ends it; a word too wide for a line of its own gets one.
WrapWord(acc, w, size, width) ==
    IF (acc.x + w) * size > width * 100
    THEN IF acc.x = 0 THEN [lines |-> acc.lines + 1, x |-> 0]
         ELSE [lines |-> acc.lines + 1, x |-> w + SpaceWidth]
    ELSE [lines |-> acc.lines, x |-> acc.x + w + SpaceWidth]

RECURSIVE WrapWords(_, _, _, _)
WrapWords(acc, words, size, width) ==
    IF words = <<>> THEN acc
    ELSE WrapWords(WrapWord(acc, Head(words), size, width), Tail(words), size, width)

\* The number of lines WordWrap returns.
WordWrap(words, size, width) ==
    LET r == WrapWords([lines |-> 0, x |-> 0], words, size, width)
    IN  r.lines + (IF r.x # 0 THEN 1 ELSE 0)

\* Lines 117-119: no line is one empty line.
Wrapped(words, size, width) ==
    IF WordWrap(words, size, width) = 0 THEN 1 ELSE WordWrap(words, size, width)

\* A test of the height that leaves the line height out.
FitsWithoutLineHeight(lines, size, availableHeight) == lines * size <= availableHeight

\* Lines 120-122: height <= availableHeight.
Fits(lines, size, availableHeight) == lines * size * QuoteLineHeight <= availableHeight * 100

\* Lines 113-127: the size the loop stops at, 0 when it runs out.
RECURSIVE ChooseSize(_, _, _, _)
ChooseSize(words, size, availableWidth, availableHeight) ==
    IF size < QuoteFontMin THEN 0
    ELSE IF Fits(Wrapped(words, size, availableWidth), size, availableHeight) THEN size
    ELSE ChooseSize(words, size - QuoteFontStep, availableWidth, availableHeight)

\* A renderer without lines 129-137: the size stays 0 when the loop runs
\* out.
RenderQuoteCardNoFallback(text) ==
    LET display == Display(text)
        availableWidth == CardWidth - CardPaddingX * 2
        availableHeight == CardHeight - CardPaddingY * 2
        chosenSize == ChooseSize(display, QuoteFontMax, availableWidth, availableHeight)
    IN  [ font |-> static.AtkinsonRegular, text |-> text, size |-> chosenSize,
          lines |-> Wrapped(display, chosenSize, availableWidth),
          width |-> CardWidth, height |-> CardHeight ]

\* The JPEG drawn from the quote text with the embedded regular font: an
\* image of CardWidth by CardHeight with the lines of the display text, at
\* the chosen size.  (jpeg.Encode into a buffer is the one call that may
\* return an error; it does not for an image of this size.)
RenderQuoteCard(text) ==
    LET display == Display(text)
        availableWidth == CardWidth - CardPaddingX * 2
        availableHeight == CardHeight - CardPaddingY * 2
        found == ChooseSize(display, QuoteFontMax, availableWidth, availableHeight)
        chosenSize == IF found = 0 THEN QuoteFontMin ELSE found
    IN  [ font |-> static.AtkinsonRegular, text |-> text, size |-> chosenSize,
          lines |-> Wrapped(display, chosenSize, availableWidth),
          width |-> CardWidth, height |-> CardHeight ]

\* The version token of the model needs no escaping.
QueryEscape(s) == s

(***************************************************************************)
(* internal/build: helpers                                                 *)
(***************************************************************************)
buildGroupKey(q) == q.SourceDomain \o "__" \o q.ArticleSlug

\* A time value that puts a record without createdAt first.
timeValueUnsetNewest(t) == IF t = Nil THEN 3 ELSE t[1].sec

\* t.Unix(): the whole seconds.
timeValue(t) == IF t = Nil THEN 0 ELSE t[1].sec

\* A comparison that takes an unset token for the empty one.
equalStringPtrNilAsEmpty(a, b) ==
    (IF a = Nil THEN "" ELSE a[1]) = (IF b = Nil THEN "" ELSE b[1])

equalStringPtr(a, b) ==
    IF a = Nil /\ b = Nil THEN TRUE
    ELSE IF a = Nil \/ b = Nil THEN FALSE
    ELSE a[1] = b[1]

\* Every relative path the build passes starts with "/".
publicPath(c, relative) == c.BasePath \o relative

absoluteURL(c, relative) ==
    IF c.SiteOrigin = "" THEN publicPath(c, relative)
    ELSE c.SiteOrigin \o publicPath(c, relative)

\* filepath.Join cleans the path it makes: an element "." and a doubled
\* separator go.  The paths of the model that it changes, and what it
\* makes of them; the others it leaves as they are.
Cleaned == << <<"./q1", "q1">>, <<"a//x", "a/x">> >>

Clean(path) ==
    IF \E i \in 1..Len(Cleaned) : Cleaned[i][1] = path
    THEN Cleaned[CHOOSE i \in 1..Len(Cleaned) : Cleaned[i][1] = path][2]
    ELSE path

\* filepath.Join(sourcesDir, domain, slug), relative to sources/.
SourcePath(domain, slug) == Clean(domain \o "/" \o slug)

\* filepath.Join(cardsDir, id + ".jpg") and filepath.Join(wrappersDir, id):
\* the file and the directory of a record, named by what stands below
\* cards/ (before ".jpg") and below q/.
CardPath(id) == Clean(id)

WrapperPath(id) == Clean(id)

\* An entry whose card fingerprint covers the title as well.
buildManifestEntryTitleInCard(q, groupKey, c) ==
    LET tagsJoined == JoinStrings(SortStrings(q.Tags), "|")
        created == IF q.CreatedAt # Nil THEN FormatRFC3339(q.CreatedAt[1]) ELSE ""
        cardVersion == IF c.CardVersion # Nil THEN c.CardVersion[1] ELSE ""
    IN  [ CardHash |-> HashJSON(<<static.cardRenderVersion, q.Quote, q.Name, tagsJoined,
                                  q.ArticleTitle>>),
          WrapperHash |-> HashJSON(<<static.wrapperRenderVersion, c.BasePath, c.SiteOrigin,
                                     cardVersion, q.Quote, q.Name, q.ArticleTitle, q.URL,
                                     q.SourceDomain>>),
          GroupItemHash |-> HashJSON(<<static.sourceRenderVersion, c.BasePath, q.ID, q.Quote,
                                       q.Name, q.BodyHTML, q.URL, q.ArticleTitle,
                                       q.SourceDomain, q.ArticleSlug, created, tagsJoined>>),
          SourceKey |-> groupKey,
          SourceDomain |-> q.SourceDomain,
          ArticleSlug |-> q.ArticleSlug ]

\* An entry whose wrapper fingerprint covers the whole Config, Force included.
buildManifestEntryHashingForce(q, groupKey, c) ==
    LET tagsJoined == JoinStrings(SortStrings(q.Tags), "|")
        created == IF q.CreatedAt # Nil THEN FormatRFC3339(q.CreatedAt[1]) ELSE ""
        cardVersion == IF c.CardVersion # Nil THEN c.CardVersion[1] ELSE ""
    IN  [ CardHash |-> HashJSON(<<static.cardRenderVersion, q.Quote, q.Name, tagsJoined>>),
          WrapperHash |-> HashJSON(<<static.wrapperRenderVersion, c.BasePath, c.SiteOrigin,
                                     cardVersion, c.Force, q.Quote, q.Name, q.ArticleTitle,
                                     q.URL, q.SourceDomain>>),
          GroupItemHash |-> HashJSON(<<static.sourceRenderVersion, c.BasePath, q.ID, q.Quote,
                                       q.Name, q.BodyHTML, q.URL, q.ArticleTitle,
                                       q.SourceDomain, q.ArticleSlug, created, tagsJoined>>),
          SourceKey |-> groupKey,
          SourceDomain |-> q.SourceDomain,
          ArticleSlug |-> q.ArticleSlug ]

\* An entry whose fingerprints take the tags in the order of the record.
buildManifestEntryTagsAsGiven(q, groupKey, c) ==
    LET tagsJoined == JoinStrings(q.Tags, "|")
        created == IF q.CreatedAt # Nil THEN FormatRFC3339(q.CreatedAt[1]) ELSE ""
        cardVersion == IF c.CardVersion # Nil THEN c.CardVersion[1] ELSE ""
    IN  [ CardHash |-> HashJSON(<<static.cardRenderVersion, q.Quote, q.Name, tagsJoined>>),
          WrapperHash |-> HashJSON(<<static.wrapperRenderVersion, c.BasePath, c.SiteOrigin,
                                     cardVersion, q.Quote, q.Name, q.ArticleTitle, q.URL,
                                     q.SourceDomain>>),
          GroupItemHash |-> HashJSON(<<static.sourceRenderVersion, c.BasePath, q.ID, q.Quote,
                                       q.Name, q.BodyHTML, q.URL, q.ArticleTitle,
                                       q.SourceDomain, q.ArticleSlug, created, tagsJoined>>),
          SourceKey |-> groupKey,
          SourceDomain |-> q.SourceDomain,
          ArticleSlug |-> q.ArticleSlug ]

\* An entry whose group-item fingerprint leaves out the base path.
buildManifestEntryWithoutBasePath(q, groupKey, c) ==
    LET tagsJoined == JoinStrings(SortStrings(q.Tags), "|")
        created == IF q.CreatedAt # Nil THEN FormatRFC3339(q.CreatedAt[1]) ELSE ""
        cardVersion == IF c.CardVersion # Nil THEN c.CardVersion[1] ELSE ""
    IN  [ CardHash |-> HashJSON(<<static.cardRenderVersion, q.Quote, q.Name, tagsJoined>>),
          WrapperHash |-> HashJSON(<<static.wrapperRenderVersion, c.BasePath, c.SiteOrigin,
                                     cardVersion, q.Quote, q.Name, q.ArticleTitle, q.URL,
                                     q.SourceDomain>>),
          GroupItemHash |-> HashJSON(<<static.sourceRenderVersion, q.ID, q.Quote,
                                       q.Name, q.BodyHTML, q.URL, q.ArticleTitle,
                                       q.SourceDomain, q.ArticleSlug, created, tagsJoined>>),
          SourceKey |-> groupKey,
          SourceDomain |-> q.SourceDomain,
          ArticleSlug |-> q.ArticleSlug ]

buildManifestEntry(q, groupKey, c) ==
    LET tagsJoined == JoinStrings(SortStrings(q.Tags), "|")
        created == IF q.CreatedAt # Nil THEN FormatRFC3339(q.CreatedAt[1]) ELSE ""
        cardVersion == IF c.CardVersion # Nil THEN c.CardVersion[1] ELSE ""
    IN  [ CardHash |-> HashJSON(<<static.cardRenderVersion, q.Quote, q.Name, tagsJoined>>),
          WrapperHash |-> HashJSON(<<static.wrapperRenderVersion, c.BasePath, c.SiteOrigin,
                                     cardVersion, q.Quote, q.Name, q.ArticleTitle, q.URL,
                                     q.SourceDomain>>),
          GroupItemHash |-> HashJSON(<<static.sourceRenderVersion, c.BasePath, q.ID, q.Quote,
                                       q.Name, q.BodyHTML, q.URL, q.ArticleTitle,
                                       q.SourceDomain, q.ArticleSlug, created, tagsJoined>>),
          SourceKey |-> groupKey,
          SourceDomain |-> q.SourceDomain,
          ArticleSlug |-> q.ArticleSlug ]

buildWrapperPayload(q, c) ==
    LET sourceDomain == IF q.SourceDomain = "" THEN "original-source" ELSE q.SourceDomain
        articleTitle == IF q.ArticleTitle = "" THEN sourceDomain ELSE q.ArticleTitle
        hasAuthor == q.Name # ""
        description ==
            IF q.ArticleTitle # ""
            THEN IF hasAuthor THEN "From " \o q.ArticleTitle \o " by " \o q.Name
                 ELSE "From " \o q.ArticleTitle \o " on " \o sourceDomain
            ELSE IF hasAuthor THEN q.Name \o " on " \o sourceDomain
                 ELSE "Collected from " \o sourceDomain
        cardPath == "/cards/" \o q.ID \o ".jpg"
        versionSuffix ==
            IF c.CardVersion # Nil /\ c.CardVersion[1] # ""
            THEN "?v=" \o QueryEscape(c.CardVersion[1]) ELSE ""
        ogImage == absoluteURL(c, cardPath \o versionSuffix)
    IN  [ page_title |-> EscapeHTML(articleTitle),
          meta_description |-> EscapeHTML(description),
          og_title |-> EscapeHTML(articleTitle),
          og_description |-> EscapeHTML(description),
          og_image |-> EscapeHTML(ogImage),
          canonical_url |-> q.URL,
          source_url |-> q.URL,
          quote_text |-> EscapeHTML(q.Quote),
          card_url |-> EscapeHTML(publicPath(c, cardPath)),
          quote_author |-> IF hasAuthor THEN EscapeHTML(q.Name) ELSE "",
          article_title |-> IF q.ArticleTitle # "" THEN EscapeHTML(q.ArticleTitle) ELSE "" ]

\* The <article> fragment of one record.  id is the id its two links carry.
buildSourceQuoteHTML(q, c) ==
    [ id |-> q.ID,
      blockquote |-> EscapeHTML(q.Quote),
      cite |-> EscapeHTML(q.Name),
      body |-> q.BodyHTML,
      quotePage |-> EscapeHTML(publicPath(c, "/q/" \o q.ID \o "/")),
      downloadJPG |-> EscapeHTML(publicPath(c, "/cards/" \o q.ID \o ".jpg")) ]

buildSourceGroupHTML(group, c) ==
    LET quoteItems == [i \in 1..Len(group.quotes) |-> buildSourceQuoteHTML(group.quotes[i], c)]
        \* (the source joins the two with an em dash)
        pageTitle == IF group.articleTitle = "" THEN "Quotes from " \o group.domain
                     ELSE group.articleTitle \o " - " \o group.domain
        sourceURL == IF group.sourceURL = "" /\ Len(group.quotes) > 0
                     THEN group.quotes[1].URL ELSE group.sourceURL
    IN  Apply(static.SourceTemplate,
              [ page_title |-> EscapeHTML(pageTitle),
                source_domain |-> EscapeHTML(group.domain),
                source_url |-> sourceURL,
                quote_items |-> quoteItems ])

\* sort.SliceStable(group.quotes, timeValue(a) > timeValue(b)): newest first,
\* records of equal time in their order of arrival.
RECURSIVE InsertByTime(_, _)
InsertByTime(sorted, q) ==
    IF sorted = <<>> THEN <<q>>
    ELSE IF timeValue(q.CreatedAt) > timeValue(Head(sorted).CreatedAt) THEN <<q>> \o sorted
    ELSE <<Head(sorted)>> \o InsertByTime(Tail(sorted), q)

RECURSIVE SortByTime(_)
SortByTime(list) ==
    IF list = <<>> THEN <<>>
    ELSE InsertByTime(SortByTime(SubSeq(list, 1, Len(list) - 1)), list[Len(list)])

(***************************************************************************)
(* internal/manifest                                                       *)
(***************************************************************************)
\* The manifest file: absent, or its bytes.  The bytes are a JSON document
\* (data) or, after a write that failed midway, a part of one.
AbsentFile == [state |-> "absent", data |-> Nil]

CorruptFile == [state |-> "corrupt", data |-> Nil]

ValidFile(doc) == [state |-> "valid", data |-> <<doc>>]

\* encoding/json of a *string: null, or the string (the strings of the model
\* are valid UTF-8, which the encoder writes and the decoder reads unchanged).
MarshalStringPtr(p) == IF p = Nil THEN <<"null">> ELSE <<"string", p[1]>>

UnmarshalStringPtr(j) == IF j[1] = "null" THEN Nil ELSE <<j[2]>>

\* json.MarshalIndent of a Manifest: the object with the keys of the json
\* tags of Manifest and QuoteEntry.
MarshalIndent(m) ==
    [ version |-> m.Version,
      generatedAt |-> m.GeneratedAt,
      cardVersion |-> MarshalStringPtr(m.CardVersion),
      cardRenderVersion |-> m.CardRenderVersion,
      cardRenderHash |-> m.CardRenderHash,
      fontsHash |-> m.FontsHash,
      wrapperRenderVersion |-> m.WrapperRenderVersion,
      wrapperTemplateHash |-> m.WrapperTemplateHash,
      sourceRenderVersion |-> m.SourceRenderVersion,
      sourceTemplateHash |-> m.SourceTemplateHash,
      quotes |-> [ id \in DOMAIN m.Quotes |->
                     [ cardHash |-> m.Quotes[id].CardHash,
                       wrapperHash |-> m.Quotes[id].WrapperHash,
                       groupItemHash |-> m.Quotes[id].GroupItemHash,
                       sourceKey |-> m.Quotes[id].SourceKey,
                       sourceDomain |-> m.Quotes[id].SourceDomain,
                       articleSlug |-> m.Quotes[id].ArticleSlug ] ] ]

\* json.Unmarshal into a Manifest.
Unmarshal(doc) ==
    [ Version |-> doc.version,
      GeneratedAt |-> doc.generatedAt,
      CardVersion |-> UnmarshalStringPtr(doc.cardVersion),
      CardRenderVersion |-> doc.cardRenderVersion,
      CardRenderHash |-> doc.cardRenderHash,
      FontsHash |-> doc.fontsHash,
      WrapperRenderVersion |-> doc.wrapperRenderVersion,
      WrapperTemplateHash |-> doc.wrapperTemplateHash,
      SourceRenderVersion |-> doc.sourceRenderVersion,
      SourceTemplateHash |-> doc.sourceTemplateHash,
      Quotes |-> [ id \in DOMAIN doc.quotes |->
                     [ CardHash |-> doc.quotes[id].cardHash,
                       WrapperHash |-> doc.quotes[id].wrapperHash,
                       GroupItemHash |-> doc.quotes[id].groupItemHash,
                       SourceKey |-> doc.quotes[id].sourceKey,
                       SourceDomain |-> doc.quotes[id].sourceDomain,
                       ArticleSlug |-> doc.quotes[id].articleSlug ] ] ]

\* A Load that reports the missing file as an error.
LoadMissingIsError(file) ==
    IF file.state # "valid" THEN [err |-> TRUE, man |-> Nil]
    ELSE [err |-> FALSE, man |-> <<Unmarshal(file.data[1])>>]

\* A Load that takes a file it cannot decode for a missing one.
LoadCorruptAsAbsent(file) ==
    IF file.state # "valid" THEN [err |-> FALSE, man |-> Nil]
    ELSE [err |-> FALSE, man |-> <<Unmarshal(file.data[1])>>]

\* manifest.Load: (nil, nil) for a missing file, an error for a file that
\* cannot be read or decoded, else the decoded manifest (a nil Quotes map
\* is made an empty one: the two are the same value here).
Load(file) ==
    IF file.state = "absent" THEN [err |-> FALSE, man |-> Nil]
    ELSE IF file.state = "corrupt" THEN [err |-> TRUE, man |-> Nil]
    ELSE [err |-> FALSE, man |-> <<Unmarshal(file.data[1])>>]

\* manifest.Save at time t: m as Save stamps it, and the file os.WriteFile
\* leaves when it succeeds.
Stamp(m, t) == [m EXCEPT !.GeneratedAt = FormatRFC3339(t)]

Save(m, t) == ValidFile(MarshalIndent(Stamp(m, t)))

\* os.WriteFile truncates the file and then writes: a call that fails has
\* either not opened the file or left a part of the bytes.
FailedWrite(file) == {file, CorruptFile}

(***************************************************************************)
(* Execute, lines 102-183: fingerprints of the binary, dirty sets          *)
(***************************************************************************)
fontsHash == HashStrings(<<HashBytes(static.AtkinsonRegular), HashBytes(static.AtkinsonBold)>>)

cardRenderHash == HashStrings(<<static.cardRenderVersion, fontsHash>>)

wrapperTemplateHash == HashBytes(static.WrapperTemplate)

sourceTemplateHash == HashBytes(static.SourceTemplate)

\* Lines 107-112.
manifestQuotesOf(m) == IF m # Nil THEN m[1].Quotes ELSE EmptyMap

prevCardVersionOf(m) == IF m # Nil THEN m[1].CardVersion ELSE Nil

\* Lines 116-121.
cardRenderChanged(m, c) == c.Force \/ m = Nil \/ m[1].CardRenderHash # cardRenderHash

\* A check that does not look at the template.
wrapperTemplateUnchecked(m, c) == c.Force \/ m = Nil

wrapperTemplateChanged(m, c) ==
    c.Force \/ m = Nil \/ m[1].WrapperTemplateHash # wrapperTemplateHash

wrapperRenderChanged(m, c) ==
    c.Force \/ m = Nil \/ m[1].WrapperRenderVersion # static.wrapperRenderVersion

sourceTemplateChanged(m, c) ==
    c.Force \/ m = Nil \/ m[1].SourceTemplateHash # sourceTemplateHash

sourceRenderChanged(m, c) ==
    c.Force \/ m = Nil \/ m[1].SourceRenderVersion # static.sourceRenderVersion

cardVersionChanged(m, c) == c.Force \/ ~equalStringPtr(prevCardVersionOf(m), c.CardVersion)

\* Lines 123-129.
EmptyPlan ==
    [ dirtyCards |-> {}, dirtyWrappers |-> {}, dirtyGroups |-> {},
      nextManifestQuotes |-> EmptyMap, removedQuotes |-> <<>>,
      sourceGroups |-> EmptyMap, groupMetadata |-> EmptyMap ]

\* Card dirtiness that follows the cache-bust token, as wrapper dirtiness
\* does.
cardDirtyOnTokenChange(q, entry, m, c) ==
    \/ cardRenderChanged(m, c)
    \/ cardVersionChanged(m, c)
    \/ ~Has(manifestQuotesOf(m), q.ID)
    \/ manifestQuotesOf(m)[q.ID].CardHash # entry.CardHash

\* Card dirtiness that compares the stored wrapper fingerprint.
cardDirtyAgainstWrapperHash(q, entry, m, c) ==
    \/ cardRenderChanged(m, c)
    \/ ~Has(manifestQuotesOf(m), q.ID)
    \/ manifestQuotesOf(m)[q.ID].WrapperHash # entry.CardHash

\* Wrapper dirtiness that does not compare the record's own fingerprint.
wrapperDirtyWithoutHash(q, entry, m, c) ==
    \/ wrapperRenderChanged(m, c)
    \/ wrapperTemplateChanged(m, c)
    \/ cardVersionChanged(m, c)
    \/ ~Has(manifestQuotesOf(m), q.ID)

\* Lines 160-162.
cardDirty(q, entry, m, c) ==
    \/ cardRenderChanged(m, c)
    \/ ~Has(manifestQuotesOf(m), q.ID)
    \/ manifestQuotesOf(m)[q.ID].CardHash # entry.CardHash

wrapperDirty(q, entry, m, c) ==
    \/ wrapperRenderChanged(m, c)
    \/ wrapperTemplateChanged(m, c)
    \/ cardVersionChanged(m, c)
    \/ ~Has(manifestQuotesOf(m), q.ID)
    \/ manifestQuotesOf(m)[q.ID].WrapperHash # entry.WrapperHash

\* Group dirtiness that does not look at the source template.
groupDirtyWithoutTemplate(q, entry, m, c) ==
    \/ sourceRenderChanged(m, c)
    \/ ~Has(manifestQuotesOf(m), q.ID)
    \/ manifestQuotesOf(m)[q.ID].GroupItemHash # entry.GroupItemHash
    \/ manifestQuotesOf(m)[q.ID].SourceKey # entry.SourceKey

groupDirty(q, entry, m, c) ==
    \/ sourceRenderChanged(m, c)
    \/ sourceTemplateChanged(m, c)
    \/ ~Has(manifestQuotesOf(m), q.ID)
    \/ manifestQuotesOf(m)[q.ID].GroupItemHash # entry.GroupItemHash
    \/ manifestQuotesOf(m)[q.ID].SourceKey # entry.SourceKey

\* Lines 139-154: the record joins its group, which it creates if need be.
JoinGroup(sourceGroups, groupKey, q) ==
    LET sourceURL == IF q.NormalizedURL = "" THEN q.URL ELSE q.NormalizedURL
        grp0 == IF ~Has(sourceGroups, groupKey)
                THEN [ domain |-> q.SourceDomain, slug |-> q.ArticleSlug,
                       sourceURL |-> sourceURL, articleTitle |-> q.ArticleTitle,
                       quotes |-> <<>> ]
                ELSE IF sourceGroups[groupKey].sourceURL = ""
                     THEN [sourceGroups[groupKey] EXCEPT !.sourceURL = sourceURL]
                     ELSE sourceGroups[groupKey]
        grp1 == IF grp0.articleTitle = "" /\ q.ArticleTitle # ""
                THEN [grp0 EXCEPT !.articleTitle = q.ArticleTitle] ELSE grp0
    IN  MapPut(sourceGroups, groupKey, [grp1 EXCEPT !.quotes = Append(@, q)])

\* Lines 131-173: one turn of the loop over quoteList.
PlanRecord(acc, q, m, c) ==
    LET groupKey == buildGroupKey(q)
        entry == buildManifestEntry(q, groupKey, c)
    IN  [ acc EXCEPT
          !.groupMetadata = MapPut(@, groupKey, [domain |-> q.SourceDomain, slug |-> q.ArticleSlug]),
          !.sourceGroups = JoinGroup(@, groupKey, q),
          !.nextManifestQuotes = MapPut(@, q.ID, entry),
          !.dirtyCards = IF cardDirty(q, entry, m, c) THEN @ \cup {q.ID} ELSE @,
          !.dirtyWrappers = IF wrapperDirty(q, entry, m, c) THEN @ \cup {q.ID} ELSE @,
          !.dirtyGroups = IF groupDirty(q, entry, m, c) THEN @ \cup {groupKey} ELSE @ ]

RECURSIVE PlanRecords(_, _, _, _)
PlanRecords(acc, list, m, c) ==
    IF list = <<>> THEN acc
    ELSE PlanRecords(PlanRecord(acc, Head(list), m, c), Tail(list), m, c)

\* A turn of the loop that leaves the dirty groups as they are.
PlanRemovalKeepingGroups(acc, id, m) ==
    LET prev == manifestQuotesOf(m)[id]
    IN  [ acc EXCEPT
          !.removedQuotes = Append(@, [id |-> id, entry |-> prev]),
          !.groupMetadata = MapPut(@, prev.SourceKey,
                                   [domain |-> prev.SourceDomain, slug |-> prev.ArticleSlug]) ]

\* Lines 175-183: one turn of the loop over the previous manifest, for an
\* id that is not in nextManifestQuotes.
PlanRemoval(acc, id, m) ==
    LET prev == manifestQuotesOf(m)[id]
    IN  [ acc EXCEPT
          !.removedQuotes = Append(@, [id |-> id, entry |-> prev]),
          !.groupMetadata = MapPut(@, prev.SourceKey,
                                   [domain |-> prev.SourceDomain, slug |-> prev.ArticleSlug]),
          !.dirtyGroups = @ \cup {prev.SourceKey} ]

RECURSIVE PlanRemovals(_, _, _)
PlanRemovals(acc, order, m) ==
    IF order = <<>> THEN acc
    ELSE PlanRemovals(PlanRemoval(acc, Head(order), m), Tail(order), m)

\* The ids the loop of lines 175-183 does not skip.
RemovedIds(list, m) == (DOMAIN manifestQuotesOf(m)) \ {list[i].ID : i \in 1..Len(list)}

\* Go ranges over a map in an order of its choosing.
Orders(S) == {o \in [1..Cardinality(S) -> S] : \A i, j \in 1..Cardinality(S) : o[i] = o[j] => i = j}

\* Lines 123-183 for the range order the runtime chose.
PlanOf(list, m, c, order) == PlanRemovals(PlanRecords(EmptyPlan, list, m, c), order, m)

\* A manifest that keeps the entries of the previous one and overwrites
\* those of the current records.
nextManifestKeepingRemoved(c, nextManifestQuotes) ==
    [ Version |-> 1,
      GeneratedAt |-> "",
      CardVersion |-> c.CardVersion,
      CardRenderVersion |-> static.cardRenderVersion,
      CardRenderHash |-> cardRenderHash,
      FontsHash |-> fontsHash,
      WrapperRenderVersion |-> static.wrapperRenderVersion,
      WrapperTemplateHash |-> wrapperTemplateHash,
      SourceRenderVersion |-> static.sourceRenderVersion,
      SourceTemplateHash |-> sourceTemplateHash,
      Quotes |-> [ id \in (DOMAIN manifestQuotesOf(man)) \cup (DOMAIN nextManifestQuotes) |->
                     IF Has(nextManifestQuotes, id) THEN nextManifestQuotes[id]
                     ELSE manifestQuotesOf(man)[id] ] ]

\* Lines 263-274.
nextManifest(c, nextManifestQuotes) ==
    [ Version |-> 1,
      GeneratedAt |-> "",
      CardVersion |-> c.CardVersion,
      CardRenderVersion |-> static.cardRenderVersion,
      CardRenderHash |-> cardRenderHash,
      FontsHash |-> fontsHash,
      WrapperRenderVersion |-> static.wrapperRenderVersion,
      WrapperTemplateHash |-> wrapperTemplateHash,
      SourceRenderVersion |-> static.sourceRenderVersion,
      SourceTemplateHash |-> sourceTemplateHash,
      Quotes |-> nextManifestQuotes ]

(***************************************************************************)
(* Execute: what each phase does to the disk d                             *)
(***************************************************************************)
\* The three output trees, in the order Execute passes them to cleanOutputs
\* and ensureDirs.
Trees == <<"cards", "q", "sources">>

EmptyDisk ==
    [ cards |-> EmptyMap, wrappers |-> EmptyMap, sources |-> EmptyMap,
      manifest |-> AbsentFile ]

\* A removal that leaves cards/ alone.
RemoveTreeKeepCards(d, tree) ==
    IF tree = "cards" THEN d
    ELSE IF tree = "q" THEN [d EXCEPT !.wrappers = EmptyMap]
    ELSE [d EXCEPT !.sources = EmptyMap]

\* os.RemoveAll(tree).
RemoveTree(d, tree) ==
    IF tree = "cards" THEN [d EXCEPT !.cards = EmptyMap]
    ELSE IF tree = "q" THEN [d EXCEPT !.wrappers = EmptyMap]
    ELSE [d EXCEPT !.sources = EmptyMap]

\* A loop that returns after its first path.
cleanOutputsFirstOnly(d, k) == IF k = 0 THEN d ELSE RemoveTree(d, Trees[1])

\* cleanOutputs when its first k calls of os.RemoveAll succeed.
RECURSIVE cleanOutputs(_, _)
cleanOutputs(d, k) == IF k = 0 THEN d ELSE RemoveTree(cleanOutputs(d, k - 1), Trees[k])

\* ensureDirs: os.MkdirAll of the three trees, which hold no file yet if
\* they are new.
ensureDirs(d) == d

\* removeDeletedQuoteOutputs: one turn of the loop, both removals done.
\* acc is [fs, stats].
RemoveQuoteOutputs(acc, item) ==
    [ fs |-> [acc.fs EXCEPT !.cards = MapDel(@, {CardPath(item.id)}),
                            !.wrappers = MapDel(@, {WrapperPath(item.id)})],
      stats |-> [ cardsRemoved |-> acc.stats.cardsRemoved
                                   + (IF Has(acc.fs.cards, CardPath(item.id)) THEN 1 ELSE 0),
                  wrappersRemoved |-> acc.stats.wrappersRemoved
                                   + (IF Has(acc.fs.wrappers, WrapperPath(item.id)) THEN 1 ELSE 0) ] ]

\* removeDeletedQuoteOutputs over the first k entries.
RECURSIVE removeDeletedQuoteOutputs(_, _, _)
removeDeletedQuoteOutputs(d, entries, k) ==
    IF k = 0 THEN [fs |-> d, stats |-> [cardsRemoved |-> 0, wrappersRemoved |-> 0]]
    ELSE RemoveQuoteOutputs(removeDeletedQuoteOutputs(d, entries, k - 1), entries[k])

\* The records of the list whose id is in the dirty set, in list order.
DirtyIn(list, dirty) == SelectSeq(list, LAMBDA q : q.ID \in dirty)

\* Lines 198-211 over the first k dirty records.
RECURSIVE WriteCards(_, _, _)
WriteCards(d, qs, k) ==
    IF k = 0 THEN d
    ELSE [WriteCards(d, qs, k - 1) EXCEPT
            !.cards = MapPut(@, CardPath(qs[k].ID), RenderQuoteCard(qs[k].Quote))]

\* Lines 213-227 over the first k dirty records.
RECURSIVE WriteWrappers(_, _, _, _)
WriteWrappers(d, qs, c, k) ==
    IF k = 0 THEN d
    ELSE [WriteWrappers(d, qs, c, k - 1) EXCEPT
            !.wrappers = MapPut(@, WrapperPath(qs[k].ID),
                                Apply(static.WrapperTemplate, buildWrapperPayload(qs[k], c)))]

\* Lines 229-237.
\* Groups left in the order of the list.
SortGroupsSkipped(sourceGroups) == sourceGroups

SortGroups(sourceGroups) ==
    [g \in DOMAIN sourceGroups |-> [sourceGroups[g] EXCEPT !.quotes = SortByTime(@)]]

\* removeSourceGroup: [fs, removed].
removeSourceGroup(d, meta) ==
    IF meta.domain = "" \/ meta.slug = "" THEN [fs |-> d, removed |-> 0]
    ELSE IF ~Has(d.sources, SourcePath(meta.domain, meta.slug)) THEN [fs |-> d, removed |-> 0]
    ELSE [ fs |-> [d EXCEPT !.sources = MapDel(@, {SourcePath(meta.domain, meta.slug)})],
           removed |-> 1 ]

\* Whether lines 242-249 (remove) rather than 250-258 (write) handle the group.
GroupIsGone(p, groupKey) ==
    ~Has(p.sourceGroups, groupKey) \/ Len(p.sourceGroups[groupKey].quotes) = 0

\* Lines 239-259: one turn of the loop.  acc is [fs, rendered, removed].
RenderGroup(acc, p, groupKey, c) ==
    IF GroupIsGone(p, groupKey)
    THEN LET r == removeSourceGroup(acc.fs, p.groupMetadata[groupKey])
         IN  [acc EXCEPT !.fs = r.fs, !.removed = @ + r.removed]
    ELSE LET grp == p.sourceGroups[groupKey]
         IN  [acc EXCEPT
                !.fs.sources = MapPut(@, SourcePath(grp.domain, grp.slug),
                                      buildSourceGroupHTML(grp, c)),
                !.rendered = @ + 1]

\* Lines 239-259 over the first k groups of the range order.
RECURSIVE RenderGroups(_, _, _, _, _)
RenderGroups(d, p, order, c, k) ==
    IF k = 0 THEN [fs |-> d, rendered |-> 0, removed |-> 0]
    ELSE RenderGroup(RenderGroups(d, p, order, c, k - 1), p, order[k], c)

\* Lines 35-43, line 90.
NewResult(total) ==
    [ QuotesTotal |-> total, CardsRendered |-> 0, WrappersRendered |-> 0,
      SourcePagesRendered |-> 0, CardsRemoved |-> 0, WrappersRemoved |-> 0,
      SourcePagesRemoved |-> 0 ]

\* The clock values manifest.Save may read.
Times == {Unix(1, 0), Unix(2, 0)}

\* d with the generation time of its manifest blanked.
StripTime(d) ==
    IF d.manifest.state = "valid"
    THEN [d EXCEPT !.manifest.data[1].generatedAt = ""] ELSE d

\* The disks a run on d0 may end with when none of its steps fails (one for
\* each order in which the runtime may range over its maps), with the
\* generation time blanked; none when the manifest cannot be loaded.
Uninterrupted(d0, list, c) ==
    LET l  == Load(d0.manifest)
        d1 == IF c.Force THEN cleanOutputs(d0, 3) ELSE d0
        m  == IF c.Force THEN Nil ELSE l.man
    IN  IF l.err THEN {}
        ELSE IF Len(list) = 0 THEN {[cleanOutputs(d1, 3) EXCEPT !.manifest = AbsentFile]}
        ELSE UNION {
            LET p0 == PlanOf(list, m, c, ro)
                d2 == ensureDirs(d1)
                d3 == removeDeletedQuoteOutputs(d2, p0.removedQuotes, Len(p0.removedQuotes)).fs
                cs == DirtyIn(list, p0.dirtyCards)
                d4 == WriteCards(d3, cs, Len(cs))
                ws == DirtyIn(list, p0.dirtyWrappers)
                d5 == WriteWrappers(d4, ws, c, Len(ws))
                p  == [p0 EXCEPT !.sourceGroups = SortGroups(@)]
            IN  { [RenderGroups(d5, p, go, c, Len(go)).fs EXCEPT
                     !.manifest = ValidFile(MarshalIndent(nextManifest(c, p.nextManifestQuotes)))]
                  : go \in Orders(p.dirtyGroups) }
            : ro \in Orders(RemovedIds(list, m)) }

(***************************************************************************)
(* The inputs of the model                                                 *)
(***************************************************************************)
\* A record as quotes.Load builds it from a front matter: NormalizedURL is
\* URL without fragment and trailing slash, SourceDomain the source_domain
\* field or else the host, ArticleSlug the slug of the path.
Quote(id, text, title, url, normalized, domain, slug, created, tags) ==
    [ ID |-> id, Quote |-> text, Name |-> "n", URL |-> url, NormalizedURL |-> normalized,
      ArticleTitle |-> title, SourceDomain |-> domain, ArticleSlug |-> slug,
      CreatedAt |-> created, Tags |-> tags, BodyHTML |-> "" ]

QuoteP == Quote("q1", "t1", "", "https://a/x", "https://a/x", "a", "x", <<Unix(2, 0)>>, <<"b", "a">>)

\* q1 with another text, q1 with a title.
QuotePText == [QuoteP EXCEPT !.Quote = "t2"]

QuotePTitle == [QuoteP EXCEPT !.ArticleTitle = "Q&A"]

\* q1 moved to the article of q3.
QuotePMoved == [QuoteP EXCEPT !.URL = "https://b/y", !.NormalizedURL = "https://b/y",
                              !.SourceDomain = "b", !.ArticleSlug = "y"]

\* q1 with its tags in another order, and with the one tag "a|b".
QuotePTags == [QuoteP EXCEPT !.Tags = <<"a", "b">>]

QuotePPipe == [QuoteP EXCEPT !.Tags = <<"a|b">>]

\* Records about the article of q1: q2 created at the epoch and a second
\* before it, and a record without createdAt.
QuoteEpoch == Quote("q2", "t3", "", "https://a/x", "https://a/x", "a", "x", <<Unix(0, 0)>>, <<>>)

QuoteOld == [QuoteEpoch EXCEPT !.CreatedAt = <<Unix(-1, 0)>>]

QuoteUndated == Quote("q4", "t6", "", "https://a/x", "https://a/x", "a", "x", Nil, <<>>)

\* Same article as q1, written with a trailing slash.
QuoteQ == Quote("q2", "t3", "", "https://a/x/", "https://a/x", "a", "x", <<Unix(1, 0)>>, <<>>)

QuoteR == Quote("q3", "t4", "", "https://b/y", "https://b/y", "b", "y", Nil, <<>>)

\* Two articles whose domain and slug differ and whose group keys are both
\* "a__b__c": source_domain "a__b" with path /c, and host a with path /b__c
\* (the slug keeps underscores).
\* q1 with another text and its id written "./q1"; a record about the
\* article of q1 whose source_domain is "a/".
QuoteDot == [QuotePText EXCEPT !.ID = "./q1"]

QuoteSlash == Quote("q5", "t5", "", "https://a/x", "https://a/x", "a/", "x", Nil, <<>>)

QuoteK == Quote("q3", "t5", "", "https://a/c", "https://a/c", "a__b", "c", Nil, <<>>)

QuoteL == Quote("q4", "t6", "", "https://a/b__c", "https://a/b__c", "a", "b__c", Nil, <<>>)

(***************************************************************************)
(* internal/quotes: what Load makes of the front matter of one file        *)
(***************************************************************************)
\* A URL as url.Parse splits it: the path is the list of its segments and
\* whether a slash ends it.
PathString(segs, slash) ==
    (IF segs = <<>> THEN "" ELSE "/" \o JoinStrings(segs, "/")) \o (IF slash THEN "/" ELSE "")

\* url.URL.String().
URLString(u) ==
    u.scheme \o "://" \o u.host \o (IF u.port = "" THEN "" ELSE ":" \o u.port)
    \o PathString(u.segs, u.slash)
    \o (IF u.query = "" THEN "" ELSE "?" \o u.query)
    \o (IF u.fragment = "" THEN "" ELSE "#" \o u.fragment)

\* The URLs of the model.
URLs ==
    [ scheme : {"https", "http"}, host : {"a"}, port : {""},
      segs : {<<>>, <<"x">>, <<"X">>}, slash : BOOLEAN,
      query : {"", "p=1"}, fragment : {"", "f"} ]

\* A text url.Parse rejects (no scheme before the colon), and one it reads
\* as a path without scheme and host.
NoURL == ":"

RelativeURL == "x"

\* url.Parse: of the text of a URL of the model, that URL.
urlParse(raw) ==
    IF raw = NoURL THEN [err |-> TRUE]
    ELSE IF raw = RelativeURL
    THEN [ err |-> FALSE,
           url |-> [ scheme |-> "", host |-> "", port |-> "", segs |-> <<raw>>,
                     slash |-> FALSE, query |-> "", fragment |-> "" ] ]
    ELSE [err |-> FALSE, url |-> CHOOSE u \in URLs : URLString(u) = raw]

\* normalizeURL: the fragment is dropped and one "/" at the end of the
\* text is cut, which is the slash that ends the path when no query
\* follows it.  An empty text is no error; a text that does not parse or
\* has no scheme or no host is one.
normalizeURL(input) ==
    IF input = "" THEN [normalized |-> "", err |-> FALSE]
    ELSE IF urlParse(input).err THEN [normalized |-> "", err |-> TRUE]
    ELSE IF urlParse(input).url.scheme = "" \/ urlParse(input).url.host = ""
    THEN [normalized |-> "", err |-> TRUE]
    ELSE LET parsed == [urlParse(input).url EXCEPT !.fragment = ""]
         IN  [ normalized |-> IF parsed.query = "" /\ parsed.slash
                              THEN URLString([parsed EXCEPT !.slash = FALSE])
                              ELSE URLString(parsed),
               err |-> FALSE ]

\* gosimple/slug of the paths of the model: lower case, "/" made "-".
Slugs == << <<"x", "x">>, <<"X", "x">> >>

slugMake(path) == Slugs[CHOOSE i \in 1..Len(Slugs) : Slugs[i][1] = path][2]

inferDomainAndSlug(normalizedURL) ==
    IF normalizedURL = "" THEN [domain |-> "", slug |-> ""]
    ELSE IF urlParse(normalizedURL).err THEN [domain |-> "", slug |-> ""]
    ELSE LET parsed == urlParse(normalizedURL).url
             path == JoinStrings(parsed.segs, "/")
         IN  IF path = "" THEN [domain |-> parsed.host, slug |-> "index"]
             ELSE IF slugMake(path) = "" THEN [domain |-> parsed.host, slug |-> "index"]
             ELSE [domain |-> parsed.host, slug |-> slugMake(path)]

\* The first value that is not blank.
RECURSIVE fallbackString(_)
fallbackString(values) ==
    IF values = <<>> THEN ""
    ELSE IF Head(values) # "" THEN Head(values)
    ELSE fallbackString(Tail(values))

\* The times a created_at of the model may name, and how RFC 3339 writes
\* them; time.Parse reads a fraction of a second after the seconds.
Written(t) == ToString(t.sec) \o (IF t.nsec = 0 THEN "" ELSE ".5") \o "Z"

Dates == {Unix(sec, nsec) : sec \in 0..2, nsec \in {0, 500000000}}

\* parseTime: nil for a blank or unreadable value, else the time written.
parseTime(value) ==
    IF \E t \in Dates : Written(t) = value
    THEN <<CHOOSE t \in Dates : Written(t) = value>>
    ELSE Nil

\* Lines 125-175 of Load: the record of a file with front matter fm (but
\* for its Location, which Execute does not read).
LoadQuote(fm) ==
    LET normalizedURL == normalizeURL(fm.url).normalized
        inferred == inferDomainAndSlug(normalizedURL)
        domain == IF fm.source_domain # "" THEN fm.source_domain ELSE inferred.domain
    IN  [ Quote(fm.id, fm.quote, fm.article_title, fm.url, normalizedURL,
                fallbackString(<<fm.source_domain, domain, "unknown-source">>),
                fallbackString(<<inferred.slug, "index">>),
                parseTime(fm.created_at), fm.tags)
          EXCEPT !.Name = fm.name ]

\* Front matter: id, quote, url, source_domain, created_at; the name is n.
FrontMatter(id, text, url, domain, created) ==
    [ id |-> id, quote |-> text, name |-> "n", url |-> url, article_title |-> "",
      source_domain |-> domain, created_at |-> created, tags |-> <<>> ]

\* Five files about one article of host a: its URL as it is; with a slash
\* at the end, written half a second later; with a fragment and a
\* source_domain, undated; over http with a query, a second later; with
\* its path in upper case, written at the time of the first.
Files ==
    { FrontMatter("q1", "t1", "https://a/x", "", "1Z"),
      FrontMatter("q2", "t3", "https://a/x/", "", "1.5Z"),
      FrontMatter("q3", "t4", "https://a/x#f", "blog", ""),
      FrontMatter("q4", "t5", "http://a/x?p=1", "", "2Z"),
      FrontMatter("q5", "t6", "https://a/X", "", "1Z") }

\* A file of the quotes directory: its path below the directory and its
\* front matter, Nil when parseFrontMatter fails on it.
QuoteFile(path, fm) == [path |-> path, fm |-> fm]

\* Lines 90-100: the entries, sorted by path.
Entries(dir) ==
    LET paths == SortStrings(CHOOSE o \in Orders({f.path : f \in dir}) : TRUE)
    IN  [i \in 1..Len(paths) |-> CHOOSE f \in dir : f.path = paths[i]]

EmptyLoad ==
    [idSet |-> {}, urlSet |-> EmptyMap, warnings |-> <<>>, errors |-> <<>>, quotesOut |-> <<>>]

\* A loop that takes the id of an earlier file for a warning, as it takes
\* a shared URL.
LoadFileDuplicateIdWarns(acc, file) ==
    IF file.fm = Nil
    THEN [acc EXCEPT !.errors = Append(@, <<file.path, "front matter">>)]
    ELSE LET fm == file.fm[1]
             norm == normalizeURL(fm.url)
             inferred == inferDomainAndSlug(norm.normalized)
             domain == IF fm.source_domain # "" THEN fm.source_domain ELSE inferred.domain
         IN  [ acc EXCEPT
               !.idSet = IF fm.id # "" THEN @ \cup {fm.id} ELSE @,
               !.errors = @
                   \o (IF fm.id = "" THEN <<<<file.path, "missing id">>>> ELSE <<>>)
                   \o (IF fm.quote = "" THEN <<<<file.path, "missing quote">>>> ELSE <<>>)
                   \o (IF fm.name = "" THEN <<<<file.path, "missing name">>>> ELSE <<>>)
                   \o (IF fm.url = "" THEN <<<<file.path, "missing url">>>> ELSE <<>>)
                   \o (IF norm.err THEN <<<<file.path, "invalid url">>>> ELSE <<>>),
               !.warnings = @
                   \o (IF fm.id # "" /\ fm.id \in acc.idSet
                       THEN <<<<file.path, "duplicate id">>>> ELSE <<>>)
                   \o (IF domain = "" THEN <<<<file.path, "no source domain">>>> ELSE <<>>)
                   \o (IF inferred.slug = "" THEN <<<<file.path, "no article slug">>>> ELSE <<>>),
               !.urlSet = IF norm.normalized # ""
                          THEN MapPut(@, norm.normalized,
                                      (IF Has(@, norm.normalized) THEN @[norm.normalized] ELSE <<>>)
                                      \o <<IF fm.id = "" THEN file.path ELSE fm.id>>)
                          ELSE @,
               !.quotesOut = Append(@, LoadQuote(fm)) ]

\* Lines 90-178 of Load: one turn of the loop over the entries.
LoadFile(acc, file) ==
    IF file.fm = Nil
    THEN [acc EXCEPT !.errors = Append(@, <<file.path, "front matter">>)]
    ELSE LET fm == file.fm[1]
             norm == normalizeURL(fm.url)
             inferred == inferDomainAndSlug(norm.normalized)
             domain == IF fm.source_domain # "" THEN fm.source_domain ELSE inferred.domain
         IN  [ acc EXCEPT
               !.idSet = IF fm.id # "" THEN @ \cup {fm.id} ELSE @,
               !.errors = @
                   \o (IF fm.id = "" THEN <<<<file.path, "missing id">>>>
                       ELSE IF fm.id \in acc.idSet THEN <<<<file.path, "duplicate id">>>>
                       ELSE <<>>)
                   \o (IF fm.quote = "" THEN <<<<file.path, "missing quote">>>> ELSE <<>>)
                   \o (IF fm.name = "" THEN <<<<file.path, "missing name">>>> ELSE <<>>)
                   \o (IF fm.url = "" THEN <<<<file.path, "missing url">>>> ELSE <<>>)
                   \o (IF norm.err THEN <<<<file.path, "invalid url">>>> ELSE <<>>),
               !.warnings = @
                   \o (IF domain = "" THEN <<<<file.path, "no source domain">>>> ELSE <<>>)
                   \o (IF inferred.slug = "" THEN <<<<file.path, "no article slug">>>> ELSE <<>>),
               !.urlSet = IF norm.normalized # ""
                          THEN MapPut(@, norm.normalized,
                                      (IF Has(@, norm.normalized) THEN @[norm.normalized] ELSE <<>>)
                                      \o <<IF fm.id = "" THEN file.path ELSE fm.id>>)
                          ELSE @,
               !.quotesOut = Append(@, LoadQuote(fm)) ]

RECURSIVE LoadFiles(_, _)
LoadFiles(acc, entries) ==
    IF entries = <<>> THEN acc
    ELSE LoadFiles(LoadFile(acc, Head(entries)), Tail(entries))

\* The URLs that lines 180-185 warn about.
SharedURLs(urlSet) == {u \in DOMAIN urlSet : Len(urlSet[u]) > 1}

\* Lines 180-185: one warning for each of them, in the order in which the
\* runtime ranges over urlSet.
SharedWarnings(urlSet, order) ==
    [i \in 1..Len(order) |-> <<"multiple quotes", order[i], SortStrings(urlSet[order[i]])>>]

\* quotes.Load of the directory, for the range order the runtime chose.
quotesLoad(dir, order) ==
    LET r == LoadFiles(EmptyLoad, Entries(dir))
    IN  [ Quotes |-> r.quotesOut,
          Warnings |-> r.warnings \o SharedWarnings(r.urlSet, order),
          Errors |-> r.errors ]

\* The range orders of quotes.Load on the directory.
LoadOrders(dir) == Orders(SharedURLs(LoadFiles(EmptyLoad, Entries(dir)).urlSet))

\* Seven files: a.md is the first file of Files; b.md is about the same
\* article, its URL written with a slash at the end; c.md has the id of a.md
\* and its URL with a fragment; d.md has no quote and no url; the url of
\* e.md has no scheme; f.md has no front matter; g.md has no id and no
\* name, and a url that does not parse.
QuoteFiles ==
    { QuoteFile("a.md", <<FrontMatter("q1", "t1", "https://a/x", "", "1Z")>>),
      QuoteFile("b.md", <<FrontMatter("q2", "t3", "https://a/x/", "", "")>>),
      QuoteFile("c.md", <<FrontMatter("q1", "t4", "https://a/x#f", "", "")>>),
      QuoteFile("d.md", <<FrontMatter("q3", "", "", "", "")>>),
      QuoteFile("e.md", <<FrontMatter("q4", "t5", RelativeURL, "", "")>>),
      QuoteFile("f.md", Nil),
      QuoteFile("g.md", <<[FrontMatter("", "t6", NoURL, "", "") EXCEPT !.name = ""]>>) }

\* The quotes directories that hold some of the files.
Directories(files) == {dir \in SUBSET files : Cardinality(dir) <= MaxFiles}

\* The release of build.go (lines 21-25) with its embedded assets.
Release ==
    [ cardRenderVersion |-> "20240505", wrapperRenderVersion |-> "20240505",
      sourceRenderVersion |-> "20240505",
      AtkinsonRegular |-> "regular.ttf", AtkinsonBold |-> "bold.ttf",
      WrapperTemplate |-> "wrapper.html", SourceTemplate |-> "source.html" ]

\* A build of the binary with an edited wrapper template, and an earlier
\* release of the wrapper renderer.
ReleaseWrapperEdited == [Release EXCEPT !.WrapperTemplate = "wrapper.html (edited)"]

ReleaseWrapperOlder == [Release EXCEPT !.wrapperRenderVersion = "20240101"]

\* Builds of the binary with another regular font, with a later version of
\* the card renderer, and with both templates edited.
ReleaseFontEdited == [Release EXCEPT !.AtkinsonRegular = "regular.ttf (edited)"]

ReleaseCardNewer == [Release EXCEPT !.cardRenderVersion = "20250101"]

ReleaseTemplatesEdited ==
    [Release EXCEPT !.WrapperTemplate = "wrapper.html (edited)",
                    !.SourceTemplate = "source.html (edited)"]

\* A build of the binary with a later version of the source-page renderer.
ReleaseSourceNewer == [Release EXCEPT !.sourceRenderVersion = "20250101"]

\* Config without Force: BASE_PATH, SITE_ORIGIN and CARD_VERSION unset.
DefaultConfig == [BasePath |-> "", SiteOrigin |-> "", CardVersion |-> Nil]

WithForce(c, force) ==
    [ BasePath |-> c.BasePath, SiteOrigin |-> c.SiteOrigin, CardVersion |-> c.CardVersion,
      Force |-> force ]

IdleConfig == WithForce(DefaultConfig, FALSE)

\* The record lists of at most MaxRecords records of the corpus, no id twice
\* (the CLI aborts on a duplicate id before it calls Execute).
RecordLists(corpus) ==
    UNION { { l \in [1..n -> corpus] : \A i, j \in 1..n : l[i].ID = l[j].ID => i = j }
            : n \in 0..MaxRecords }

\* A quotes directory with one file, which has no front matter.
NoFrontMatter == {QuoteFile("f.md", Nil)}

MainWorld ==
    [ corpus |-> {QuoteP, QuoteQ, QuoteR}, configs |-> {DefaultConfig},
      statics |-> {Release}, faults |-> MaxFaults, track |-> FALSE,
      dirs |-> {NoFrontMatter} ]

(***************************************************************************)
(* internal/render: getFontFace and its cache, called by goroutines        *)
(***************************************************************************)
Goroutines == 1..MaxGoroutines

\* The sizes they ask for.
FaceSizes == {72, 70}

\* A goroutine outside getFontFace that has made no call yet.
Parked == [at |-> "out", size |-> 0, face |-> Nil, returned |-> Nil]

\* truetype.NewFace: a face of its own, the n-th made of its size.
NewFace(size) ==
    [size |-> size, n |-> Cardinality({f \in constructed : f.size = size}) + 1]

\* A goroutine calls getFontFace(size).
Call(g, size) ==
    /\ goroutines[g].at = "out"
    /\ goroutines' = [goroutines EXCEPT ![g] = [at |-> "lock", size |-> size,
                                                 face |-> Nil, returned |-> Nil]]
    /\ UNCHANGED <<faceCache, constructed, build>>

\* A call that goes on without the mutex.
LockNotTaken(g) ==
    /\ goroutines[g].at = "lock"
    /\ goroutines' = [goroutines EXCEPT ![g].at = "lookup"]
    /\ UNCHANGED <<faceCache, constructed, build>>

\* faceCache.Lock(): the goroutine waits until the mutex is free.
Lock(g) ==
    /\ goroutines[g].at = "lock"
    /\ faceCache.mutex = Nil
    /\ faceCache' = [faceCache EXCEPT !.mutex = <<g>>]
    /\ goroutines' = [goroutines EXCEPT ![g].at = "lookup"]
    /\ UNCHANGED <<constructed, build>>

\* if face, ok := faceCache.faces[size]; ok { return face }
Lookup(g) ==
    /\ goroutines[g].at = "lookup"
    /\ goroutines' = IF Has(faceCache.faces, goroutines[g].size)
                      THEN [goroutines EXCEPT ![g].at = "unlock",
                                              ![g].returned = <<faceCache.faces[goroutines[g].size]>>]
                      ELSE [goroutines EXCEPT ![g].at = "new"]
    /\ UNCHANGED <<faceCache, constructed, build>>

\* face := truetype.NewFace(regularFont, ...)
Construct(g) ==
    /\ goroutines[g].at = "new"
    /\ goroutines' = [goroutines EXCEPT ![g].at = "store",
                                         ![g].face = <<NewFace(goroutines[g].size)>>]
    /\ constructed' = constructed \cup {NewFace(goroutines[g].size)}
    /\ UNCHANGED <<faceCache, build>>

\* faceCache.faces[size] = face; return face
Store(g) ==
    /\ goroutines[g].at = "store"
    /\ faceCache' = [faceCache EXCEPT
                        !.faces = MapPut(@, goroutines[g].size, goroutines[g].face[1])]
    /\ goroutines' = [goroutines EXCEPT ![g].at = "unlock",
                                         ![g].returned = goroutines[g].face]
    /\ UNCHANGED <<constructed, build>>

\* defer faceCache.Unlock(): the call returns.
Unlock(g) ==
    /\ goroutines[g].at = "unlock"
    /\ faceCache' = [faceCache EXCEPT !.mutex = IF @ = <<g>> THEN Nil ELSE @]
    /\ goroutines' = [goroutines EXCEPT ![g].at = "out"]
    /\ UNCHANGED <<constructed, build>>

\* One step of one goroutine in getFontFace.
getFontFace(g) ==
    \/ \E size \in FaceSizes : Call(g, size)
    \/ Lock(g)
    \/ Lookup(g)
    \/ Construct(g)
    \/ Store(g)
    \/ Unlock(g)

(***************************************************************************)
(* The state machine                                                       *)
(***************************************************************************)
Idle == [status |-> "idle"]

Running == [status |-> "running"]

Failed == [status |-> "error"]

Succeeded(r, m) == [status |-> "ok", Result |-> r, Manifest |-> m]

InitWorld(w) ==
    /\ fs = EmptyDisk
    /\ pc = "idle"
    /\ cfg = IdleConfig
    /\ quoteList = <<>>
    /\ static = Release
    /\ cli = Nil
    /\ man = Nil
    /\ plan = EmptyPlan
    /\ result = NewResult(0)
    /\ outcome = Idle
    /\ loaded = Nil
    /\ begun = Nil
    /\ last = Nil
    /\ faults = 0
    /\ world = w
    /\ faceCache = [mutex |-> Nil, faces |-> EmptyMap]
    /\ goroutines = [g \in Goroutines |-> Parked]
    /\ constructed = {}

Init == InitWorld(MainWorld)

\* return nil, err: an I/O or render error aborts the run.
Abort ==
    /\ faults < world.faults
    /\ faults' = faults + 1
    /\ pc' = "done"
    /\ outcome' = Failed

NoFault == UNCHANGED <<faults, outcome>>

\* Lines 90-92: where Execute goes once the manifest is loaded and, under
\* Force, the trees are wiped.
Enter ==
    /\ result' = NewResult(Len(quoteList))
    /\ pc' = IF Len(quoteList) = 0 THEN "empty" ELSE "plan"

\* main calls Execute with the records it has loaded.
Start(list, c, st) ==
    /\ pc = "idle"
    /\ pc' = "load"
    /\ cfg' = c
    /\ quoteList' = list
    /\ static' = st
    /\ outcome' = Running
    /\ UNCHANGED <<fs, locals, begun, last, faults, world, fonts>>

\* Lines 78-81.
LoadManifest ==
    /\ pc = "load"
    /\ begun' = << [ manifest |-> fs.manifest,
                     faults |-> faults,
                     clean |-> world.track /\ [fs EXCEPT !.manifest = AbsentFile] = EmptyDisk,
                     expected |-> IF world.track THEN Uninterrupted(fs, quoteList, cfg)
                                  ELSE {} ] >>
    /\ \/ /\ ~Load(fs.manifest).err
          /\ man' = Load(fs.manifest).man
          /\ loaded' = Load(fs.manifest).man
          /\ IF cfg.Force
             THEN pc' = "force" /\ UNCHANGED result
             ELSE Enter
          /\ NoFault
       \/ \* the file is there and cannot be read
          /\ fs.manifest.state # "absent"
          /\ Abort
          /\ UNCHANGED <<man, loaded, result>>
       \/ \* the file cannot be decoded
          /\ Load(fs.manifest).err
          /\ pc' = "done"
          /\ outcome' = Failed
          /\ UNCHANGED <<man, loaded, result, faults>>
    /\ UNCHANGED <<fs, inputs, plan, last, world, fonts>>

\* Lines 83-88.
ForceClean ==
    /\ pc = "force"
    /\ \E k \in 0..3 :
         /\ fs' = cleanOutputs(fs, k)
         /\ IF k = 3
            THEN man' = Nil /\ Enter /\ NoFault
            ELSE Abort /\ UNCHANGED <<man, result>>
    /\ UNCHANGED <<inputs, plan, loaded, begun, last, world, fonts>>

\* Lines 92-100.
EmptyInput ==
    /\ pc = "empty"
    /\ \E k \in 0..3 :
         \/ /\ k = 3
            /\ fs' = [cleanOutputs(fs, 3) EXCEPT !.manifest = AbsentFile]
            /\ pc' = "done"
            /\ outcome' = Succeeded(result, [Quotes |-> EmptyMap])
            /\ UNCHANGED faults
         \/ /\ k < 3
            /\ fs' = cleanOutputs(fs, k)
            /\ Abort
         \/ \* os.Remove fails on the manifest file
            /\ k = 3
            /\ fs.manifest.state # "absent"
            /\ fs' = cleanOutputs(fs, 3)
            /\ Abort
    /\ UNCHANGED <<inputs, locals, begun, last, world, fonts>>

\* Lines 102-187.
Plan ==
    /\ pc = "plan"
    /\ \E order \in Orders(RemovedIds(quoteList, man)) :
         plan' = PlanOf(quoteList, man, cfg, order)
    /\ fs' = ensureDirs(fs)
    /\ \/ pc' = "remove" /\ NoFault
       \/ Abort                                                 \* os.MkdirAll fails
    /\ UNCHANGED <<inputs, man, result, loaded, begun, last, world, fonts>>

\* Lines 189-194.
RemoveDeleted ==
    /\ pc = "remove"
    /\ LET entries == plan.removedQuotes IN
       \/ LET r == removeDeletedQuoteOutputs(fs, entries, Len(entries)) IN
          /\ fs' = r.fs
          /\ result' = [result EXCEPT !.CardsRemoved = r.stats.cardsRemoved,
                                      !.WrappersRemoved = r.stats.wrappersRemoved]
          /\ pc' = "cards"
          /\ NoFault
       \/ \E k \in 0..(Len(entries) - 1) :
            LET r == removeDeletedQuoteOutputs(fs, entries, k).fs
                id == entries[k + 1].id
            IN  /\ \/ fs' = r                                   \* os.Remove fails
                   \/ /\ Has(r.wrappers, WrapperPath(id))       \* os.RemoveAll fails
                      /\ fs' = [r EXCEPT !.cards = MapDel(@, {CardPath(id)})]
                /\ Abort
                /\ UNCHANGED result
    /\ UNCHANGED <<inputs, man, plan, loaded, begun, last, world, fonts>>

\* Lines 198-211.
RenderCards ==
    /\ pc = "cards"
    /\ LET qs == DirtyIn(quoteList, plan.dirtyCards) IN
       \E k \in 0..Len(qs) :
         /\ fs' = WriteCards(fs, qs, k)
         /\ IF k = Len(qs)
            THEN /\ result' = [result EXCEPT !.CardsRendered = Len(qs)]
                 /\ pc' = "wrappers"
                 /\ NoFault
            ELSE Abort /\ UNCHANGED result     \* RenderQuoteCard or os.WriteFile fails
    /\ UNCHANGED <<inputs, man, plan, loaded, begun, last, world, fonts>>

\* Lines 213-227.
RenderWrappers ==
    /\ pc = "wrappers"
    /\ LET qs == DirtyIn(quoteList, plan.dirtyWrappers) IN
       \E k \in 0..Len(qs) :
         LET d == WriteWrappers(fs, qs, cfg, k) IN
         IF k = Len(qs)
         THEN /\ fs' = d
              /\ result' = [result EXCEPT !.WrappersRendered = Len(qs)]
              /\ pc' = "groups"
              /\ NoFault
         ELSE /\ fs' = d                          \* os.MkdirAll or os.WriteFile fails
              /\ Abort
              /\ UNCHANGED result
    /\ UNCHANGED <<inputs, man, plan, loaded, begun, last, world, fonts>>

\* Lines 229-261.
RenderGroupPages ==
    /\ pc = "groups"
    /\ plan' = [plan EXCEPT !.sourceGroups = SortGroups(@)]
    /\ LET p == [plan EXCEPT !.sourceGroups = SortGroups(@)] IN
       \E order \in Orders(p.dirtyGroups) :
         \E k \in 0..Len(order) :
           LET r == RenderGroups(fs, p, order, cfg, k) IN
           IF k = Len(order)
           THEN /\ fs' = r.fs
                /\ result' = [result EXCEPT !.SourcePagesRendered = r.rendered,
                                            !.SourcePagesRemoved = r.removed]
                /\ pc' = "save"
                /\ NoFault
           ELSE /\ fs' = r.fs      \* os.RemoveAll, os.MkdirAll or os.WriteFile fails
                /\ Abort
                /\ UNCHANGED result
    /\ UNCHANGED <<inputs, man, loaded, begun, last, world, fonts>>

\* Lines 263-280.
SaveManifest ==
    /\ pc = "save"
    /\ LET m == nextManifest(cfg, plan.nextManifestQuotes) IN
       \/ \E t \in Times :
            /\ fs' = [fs EXCEPT !.manifest = Save(m, t)]
            /\ pc' = "done"
            /\ outcome' = Succeeded(result, Stamp(m, t))
            /\ UNCHANGED faults
       \/ \E file \in FailedWrite(fs.manifest) :
            /\ fs' = [fs EXCEPT !.manifest = file]
            /\ Abort
    /\ UNCHANGED <<inputs, locals, begun, last, world, fonts>>

\* Execute has returned and the process exits: nothing of it is left but
\* the disk.
Exit ==
    /\ pc = "done"
    /\ pc' = "idle"
    /\ cfg' = IdleConfig
    /\ quoteList' = <<>>
    /\ static' = Release
    /\ cli' = Nil
    /\ man' = Nil
    /\ plan' = EmptyPlan
    /\ result' = NewResult(0)
    /\ outcome' = Idle
    /\ loaded' = Nil
    /\ begun' = Nil
    /\ last' = IF begun = Nil THEN last             \* Execute was not called
                ELSE
               << [ quoteList |-> quoteList, cfg |-> cfg, static |-> static,
                    ok |-> outcome.status = "ok", expected |-> begun[1].expected,
                    fresh |-> IF /\ world.track /\ outcome.status = "ok" /\ ~cfg.Force
                                 /\ Len(quoteList) > 0 /\ begun[1].manifest = AbsentFile
                              THEN << [ quoteList |-> quoteList, cfg |-> cfg,
                                        static |-> static, clean |-> begun[1].clean,
                                        fs |-> StripTime(fs), Result |-> outcome.Result,
                                        Manifest |-> [outcome.Manifest EXCEPT
                                                         !.GeneratedAt = ""] ] >>
                              ELSE IF last = Nil THEN Nil ELSE last[1].fresh ] >>
    /\ UNCHANGED <<fs, faults, world, fonts>>

\* The CLI is started without --check on a quotes directory whose files
\* load, without an error, to the records of list.
Run ==
    \E list \in RecordLists(world.corpus), c \in world.configs, st \in world.statics,
       force \in BOOLEAN :
        /\ Start(list, WithForce(c, force), st)
        /\ cli' = Nil

\* What main leaves behind when it returns without a build: process.exitCode
\* and what it has printed.
Rejected(r) ==
    [status |-> "invalid", exitCode |-> 1, Errors |-> r.Errors, Warnings |-> r.Warnings]

Validated(r) ==
    [status |-> "validated", exitCode |-> 0, Errors |-> <<>>, Warnings |-> r.Warnings,
     count |-> Len(r.Quotes)]

\* A main that goes on to the build whatever the Loader reports, and under
\* --check ends with exit code 0.
mainIgnoringErrors(dir, check, c, st) ==
    /\ pc = "idle"
    /\ cli' = [check |-> check, dir |-> dir]
    /\ \E order \in LoadOrders(dir) :
         LET r == quotesLoad(dir, order) IN
         IF check
         THEN /\ pc' = "done"
              /\ outcome' = Validated(r)
              /\ UNCHANGED <<fs, cfg, quoteList, static, locals, begun, last, faults, world, fonts>>
         ELSE Start(r.Quotes, c, st)

\* main, until it starts the build: it loads the quotes directory and
\* prints the warnings and errors; errors end it, with exit code 1 (set
\* at once under --check, by the handler of the exception otherwise);
\* --check ends it after the validation.
main(dir, check, c, st) ==
    /\ pc = "idle"
    /\ cli' = [check |-> check, dir |-> dir]
    /\ \E order \in LoadOrders(dir) :
         LET r == quotesLoad(dir, order) IN
         IF Len(r.Errors) > 0
         THEN /\ pc' = "done"
              /\ outcome' = Rejected(r)
              /\ UNCHANGED <<fs, cfg, quoteList, static, locals, begun, last, faults, world, fonts>>
         ELSE IF check
         THEN /\ pc' = "done"
              /\ outcome' = Validated(r)
              /\ UNCHANGED <<fs, cfg, quoteList, static, locals, begun, last, faults, world, fonts>>
         ELSE Start(r.Quotes, c, st)

\* The CLI is started on a quotes directory, with or without --check.
CommandLine ==
    \E dir \in world.dirs, check \in BOOLEAN, c \in world.configs, st \in world.statics,
       force \in BOOLEAN :
        main(dir, check, WithForce(c, force), st)

Next ==
    \/ Run
    \/ CommandLine
    \/ LoadManifest
    \/ ForceClean
    \/ EmptyInput
    \/ Plan
    \/ RemoveDeleted
    \/ RenderCards
    \/ RenderWrappers
    \/ RenderGroupPages
    \/ SaveManifest
    \/ Exit

Spec == Init /\ [][Next]_vars

(***************************************************************************)
(* Other worlds: the same program with other inputs                        *)
(***************************************************************************)
\* Edits of one record between runs: its text, its title.  No run of this
\* world is aborted.
ContentWorld ==
    [ corpus |-> {QuoteP, QuotePText, QuotePTitle, QuoteQ, QuoteR},
      configs |-> {DefaultConfig}, statics |-> {Release}, faults |-> 0, track |-> FALSE,
      dirs |-> {NoFrontMatter} ]

InitContent == InitWorld(ContentWorld)

SpecContent == InitContent /\ [][Next]_vars

\* Changes of the setup between runs: CARD_VERSION unset, empty or "3";
\* the wrapper template edited; another version of the wrapper renderer.
\* No run of this world is aborted.
SetupWorld ==
    [ corpus |-> {QuoteP, QuoteR},
      configs |-> { [DefaultConfig EXCEPT !.CardVersion = v] : v \in {Nil, <<"">>, <<"3">>} },
      statics |-> {Release, ReleaseWrapperEdited, ReleaseWrapperOlder},
      faults |-> 0, track |-> FALSE,
      dirs |-> {NoFrontMatter} ]

InitSetup == InitWorld(SetupWorld)

SpecSetup == InitSetup /\ [][Next]_vars

\* Two articles with one group key.
KeysWorld ==
    [ corpus |-> {QuoteK, QuoteL}, configs |-> {DefaultConfig}, statics |-> {Release},
      faults |-> MaxFaults, track |-> FALSE,
      dirs |-> {NoFrontMatter} ]

InitKeys == InitWorld(KeysWorld)

SpecKeys == InitKeys /\ [][Next]_vars

\* Runs whose failure-free result is kept track of.
RetryWorld ==
    [ corpus |-> {QuoteP, QuoteQ}, configs |-> {DefaultConfig}, statics |-> {Release},
      faults |-> MaxFaults, track |-> TRUE,
      dirs |-> {NoFrontMatter} ]

InitRetry == InitWorld(RetryWorld)

SpecRetry == InitRetry /\ [][Next]_vars

\* The records Load makes of the five files.  No run of this world is
\* aborted.
LoaderWorld ==
    [ corpus |-> {LoadQuote(fm) : fm \in Files}, configs |-> {DefaultConfig},
      statics |-> {Release}, faults |-> 0, track |-> FALSE,
      dirs |-> {NoFrontMatter} ]

InitLoader == InitWorld(LoaderWorld)

SpecLoader == InitLoader /\ [][Next]_vars

\* Changes between runs of what a card is made of and of what it is not:
\* the text of q1; the font and the version of the card renderer; the
\* templates, the base path, the site origin and the cache-bust token.  No
\* run of this world is aborted.
CardsWorld ==
    [ corpus |-> {QuoteP, QuotePText, QuoteR},
      configs |-> { DefaultConfig,
                    [BasePath |-> "/b", SiteOrigin |-> "https://s", CardVersion |-> <<"3">>] },
      statics |-> {Release, ReleaseFontEdited, ReleaseCardNewer, ReleaseTemplatesEdited},
      faults |-> 0, track |-> FALSE, dirs |-> {NoFrontMatter} ]

InitCards == InitWorld(CardsWorld)

SpecCards == InitCards /\ [][Next]_vars

\* Changes between runs of what makes a group dirty: the text and the
\* article of q1, the records of the list, the source template and the
\* version of the source-page renderer.  No run of this world is aborted.
GroupsWorld ==
    [ corpus |-> {QuoteP, QuotePText, QuotePMoved, QuoteQ, QuoteR},
      configs |-> {DefaultConfig},
      statics |-> {Release, ReleaseTemplatesEdited, ReleaseSourceNewer},
      faults |-> 0, track |-> FALSE, dirs |-> {NoFrontMatter} ]

InitGroups == InitWorld(GroupsWorld)

SpecGroups == InitGroups /\ [][Next]_vars

\* Changes of the tags of q1 between runs.  No run of this world is aborted.
TagsWorld ==
    [ corpus |-> {QuoteP, QuotePTags, QuotePPipe, QuoteR},
      configs |-> {DefaultConfig}, statics |-> {Release},
      faults |-> 0, track |-> FALSE, dirs |-> {NoFrontMatter} ]

InitTags == InitWorld(TagsWorld)

SpecTags == InitTags /\ [][Next]_vars

\* One article, records with and without createdAt.  No run of this world
\* is aborted.
DatesWorld ==
    [ corpus |-> {QuoteP, QuoteQ, QuoteEpoch, QuoteOld, QuoteUndated},
      configs |-> {DefaultConfig}, statics |-> {Release},
      faults |-> 0, track |-> FALSE, dirs |-> {NoFrontMatter} ]

InitDates == InitWorld(DatesWorld)

SpecDates == InitDates /\ [][Next]_vars

\* Changes of BASE_PATH and SITE_ORIGIN between runs.  No run of this world
\* is aborted.
LinksWorld ==
    [ corpus |-> {QuoteP, QuoteQ, QuoteR},
      configs |-> { [DefaultConfig EXCEPT !.BasePath = b, !.SiteOrigin = o] :
                      b \in {"", "/b"}, o \in {"", "https://s"} },
      statics |-> {Release},
      faults |-> 0, track |-> FALSE, dirs |-> {NoFrontMatter} ]

InitLinks == InitWorld(LinksWorld)

SpecLinks == InitLinks /\ [][Next]_vars

\* Ids and domains that are written in more than one way.  No run of this
\* world is aborted.
PathsWorld ==
    [ corpus |-> {QuoteP, QuoteDot, QuoteSlash}, configs |-> {DefaultConfig},
      statics |-> {Release}, faults |-> 0, track |-> FALSE, dirs |-> {NoFrontMatter} ]

InitPaths == InitWorld(PathsWorld)

SpecPaths == InitPaths /\ [][Next]_vars

\* Goroutines that call getFontFace, in any interleaving of their steps,
\* while no build runs.
NextFaces == \E g \in Goroutines : getFontFace(g)

SpecFaces == Init /\ [][NextFaces]_vars

\* Runs of the CLI on quotes directories with valid and invalid files.  No
\* run of this world is aborted.
FilesWorld ==
    [ corpus |-> {}, configs |-> {DefaultConfig}, statics |-> {Release}, faults |-> 0,
      track |-> FALSE, dirs |-> Directories(QuoteFiles) ]

InitFiles == InitWorld(FilesWorld)

SpecFiles == InitFiles /\ [][Next]_vars

(***************************************************************************)
(* Properties                                                              *)
(***************************************************************************)
Ids(list) == {list[i].ID : i \in 1..Len(list)}

\* Execute has returned without an error.
Returned == pc = "done" /\ outcome.status = "ok"

\* The run before this one returned without an error.
AfterSuccess == last # Nil /\ last[1].ok

\* This run has the Config (base path, site origin, cache-bust token) and
\* the embedded templates, fonts and render versions of the run before.
SameSetup ==
    /\ last[1].cfg.BasePath = cfg.BasePath
    /\ last[1].cfg.SiteOrigin = cfg.SiteOrigin
    /\ last[1].cfg.CardVersion = cfg.CardVersion
    /\ last[1].static = static

\* The counters of what the run wrote and deleted.
Touched(r) ==
    r.CardsRendered + r.WrappersRendered + r.SourcePagesRendered
    + r.CardsRemoved + r.WrappersRemoved + r.SourcePagesRemoved

Unstamped(m) == [m EXCEPT !.GeneratedAt = ""]

\* C1 (idempotence): when Execute has returned without an error on a
\* non-empty record list and is run again without Force on the same list
\* with the same Config, templates and fonts, the second run has empty dirty
\* sets of cards, wrappers and groups, every rendered and removed counter of
\* its Result is 0, and the manifest it saves equals the first one except
\* for generatedAt, in memory and in the file.
Repeated ==
    /\ Returned /\ AfterSuccess /\ SameSetup
    /\ ~cfg.Force
    /\ Len(quoteList) > 0
    /\ last[1].quoteList = quoteList

Idempotence ==
    Repeated =>
        /\ plan.dirtyCards = {} /\ plan.dirtyWrappers = {} /\ plan.dirtyGroups = {}
        /\ Touched(outcome.Result) = 0
        /\ outcome.Result = NewResult(Len(quoteList))
        /\ loaded # Nil
        /\ Unstamped(outcome.Manifest) = Unstamped(loaded[1])
        /\ StripTime(fs).manifest = StripTime([fs EXCEPT !.manifest = begun[1].manifest]).manifest

\* A second run of two records, at another time than the first.
IdempotenceWitness ==
    /\ Repeated
    /\ Len(quoteList) = 2
    /\ outcome.Manifest.GeneratedAt # loaded[1].GeneratedAt
    /\ fs.manifest # begun[1].manifest

\* The ids the page at path lists, in page order.
Listed(page) == [i \in 1..Len(page.data.quote_items) |-> page.data.quote_items[i].id]

ListedIds(page) == {Listed(page)[i] : i \in 1..Len(Listed(page))}

\* The ids of the previous manifest that the current list does not have.
Dropped == (DOMAIN manifestQuotesOf(loaded)) \ Ids(quoteList)

\* C2 (removal): when an id has an entry in the previous manifest and is
\* absent from the current non-empty record list, a run without Force that
\* returns without an error leaves no cards/<id>.jpg and no q/<id>/, and of
\* the group recorded in the stale entry it leaves the page
\* sources/<domain>/<slug>/index.html without the removed record when the
\* group (the records with the group key of the stale entry) still has
\* current members, and no such page when it has none.
RemovedOutputs(id) ==
    LET prev == loaded[1].Quotes[id]
        path == SourcePath(prev.SourceDomain, prev.ArticleSlug)
        members == {i \in 1..Len(quoteList) : buildGroupKey(quoteList[i]) = prev.SourceKey}
    IN  /\ ~Has(fs.cards, id)
        /\ ~Has(fs.wrappers, id)
        /\ IF members # {}
           THEN Has(fs.sources, path) /\ id \notin ListedIds(fs.sources[path])
           ELSE ~Has(fs.sources, path)

Removal ==
    (Returned /\ ~cfg.Force /\ Len(quoteList) > 0) =>
        \A id \in Dropped : RemovedOutputs(id)

\* This run and the run before it, both without Force and with the same
\* setup, got the same records but for the record at position i.
OnlyRecordDiffers(i) ==
    /\ AfterSuccess /\ SameSetup
    /\ ~last[1].cfg.Force /\ ~cfg.Force
    /\ Len(last[1].quoteList) = Len(quoteList)
    /\ i \in 1..Len(quoteList)
    /\ \A j \in 1..Len(quoteList) : j # i => last[1].quoteList[j] = quoteList[j]

\* ... and that record differs in nothing but its quoted text.
OnlyTextDiffers(i) ==
    /\ OnlyRecordDiffers(i)
    /\ last[1].quoteList[i].Quote # quoteList[i].Quote
    /\ [last[1].quoteList[i] EXCEPT !.Quote = quoteList[i].Quote] = quoteList[i]

\* ... in nothing but its title.
OnlyTitleDiffers(i) ==
    /\ OnlyRecordDiffers(i)
    /\ last[1].quoteList[i].ArticleTitle # quoteList[i].ArticleTitle
    /\ [last[1].quoteList[i] EXCEPT !.ArticleTitle = quoteList[i].ArticleTitle] = quoteList[i]

\* The group-item fingerprint of the record differs from the stored one.
GroupItemDirty(q) ==
    loaded[1].Quotes[q.ID].GroupItemHash # plan.nextManifestQuotes[q.ID].GroupItemHash

\* C3 (fingerprint sensitivity to text): between two runs without Force
\* where nothing changes except the quoted text of one record, the second
\* run marks the card and the wrapper of exactly that record dirty, its
\* group-item fingerprint differs, and exactly its group is dirty.
TextSensitivity ==
    \A i \in 1..Len(quoteList) :
        (Returned /\ OnlyTextDiffers(i)) =>
            /\ plan.dirtyCards = {quoteList[i].ID}
            /\ plan.dirtyWrappers = {quoteList[i].ID}
            /\ GroupItemDirty(quoteList[i])
            /\ plan.dirtyGroups = {buildGroupKey(quoteList[i])}
            /\ outcome.Result.CardsRendered = 1
            /\ outcome.Result.WrappersRendered = 1
            /\ outcome.Result.SourcePagesRendered = 1

\* The text of one of two records has changed; the other record is of
\* another group.
TextSensitivityWitness ==
    /\ Returned
    /\ Len(quoteList) = 2
    /\ OnlyTextDiffers(1)
    /\ buildGroupKey(quoteList[2]) # buildGroupKey(quoteList[1])

\* The card fingerprint of q is the one of q with title t and URL u.
CardHashIgnores(q, t, u) ==
    buildManifestEntry([q EXCEPT !.ArticleTitle = t, !.URL = u], buildGroupKey(q), cfg).CardHash
        = buildManifestEntry(q, buildGroupKey(q), cfg).CardHash

\* C4 (fingerprint sensitivity to title): between two runs without Force
\* where nothing changes except the title of one record, the wrapper of
\* that record is dirty, its group-item fingerprint differs and its group
\* is dirty, but its card is not dirty and no card file is written; the
\* card fingerprint of a record does not depend on its title or its URL.
TitleSensitivity ==
    /\ \A i \in 1..Len(quoteList) :
          (Returned /\ OnlyTitleDiffers(i)) =>
              /\ plan.dirtyWrappers = {quoteList[i].ID}
              /\ GroupItemDirty(quoteList[i])
              /\ plan.dirtyGroups = {buildGroupKey(quoteList[i])}
              /\ plan.dirtyCards = {}
              /\ outcome.Result.CardsRendered = 0
    /\ \A q \in world.corpus : \A t \in {"", "Q&A", "T"} : \A u \in {"https://a/x", "https://c/z"} :
          CardHashIgnores(q, t, u)

\* The title of one of two records of one group has changed.
TitleSensitivityWitness ==
    /\ Returned
    /\ Len(quoteList) = 2
    /\ OnlyTitleDiffers(1)
    /\ buildGroupKey(quoteList[2]) = buildGroupKey(quoteList[1])

\* Every record of the list has its wrapper dirty, and the run has written
\* the wrapper page of every record.
AllWrappersRendered ==
    /\ plan.dirtyWrappers = Ids(quoteList)
    /\ outcome.Result.WrappersRendered = Len(quoteList)
    /\ \A i \in 1..Len(quoteList) :
          /\ Has(fs.wrappers, quoteList[i].ID)
          /\ fs.wrappers[quoteList[i].ID]
                = Apply(static.WrapperTemplate, buildWrapperPayload(quoteList[i], cfg))

\* The previous manifest holds another wrapper template fingerprint, or
\* another wrapper render version, than the binary that runs.
WrapperSetupDiffers ==
    /\ loaded # Nil
    /\ \/ loaded[1].WrapperTemplateHash # HashBytes(static.WrapperTemplate)
       \/ loaded[1].WrapperRenderVersion # static.wrapperRenderVersion

\* The wrapper fingerprint of the record is the stored one.
WrapperHashKept(q) ==
    /\ Has(loaded[1].Quotes, q.ID)
    /\ loaded[1].Quotes[q.ID].WrapperHash = plan.nextManifestQuotes[q.ID].WrapperHash

\* C5 (cascading invalidation by template): when the wrapper template
\* fingerprint or the wrapper render version of the previous manifest
\* differs from the current one, a run that returns without an error has
\* marked the wrapper of every record of its list dirty and has rendered
\* it, whether or not the wrapper fingerprint of the record has changed.
TemplateCascade ==
    (Returned /\ Len(quoteList) > 0 /\ WrapperSetupDiffers) => AllWrappersRendered

\* A run without Force after an edit of the template alone: the wrapper
\* fingerprint of every record is the stored one.
TemplateCascadeWitness ==
    /\ Returned /\ ~cfg.Force /\ WrapperSetupDiffers
    /\ Len(quoteList) = 2
    /\ loaded[1].WrapperRenderVersion = static.wrapperRenderVersion
    /\ \A i \in 1..Len(quoteList) : WrapperHashKept(quoteList[i])

\* The previous manifest records another cache-bust token than the Config
\* of this run has: another string, or one of the two is unset.
TokenDiffers == loaded # Nil /\ loaded[1].CardVersion # cfg.CardVersion

\* C6 (cascading invalidation by cache-bust token): when Config.CardVersion
\* (possibly unset) differs from the cardVersion of the previous manifest,
\* a run that returns without an error has marked the wrapper of every
\* record dirty and has rendered it, and the manifest it has saved records
\* the new token.
TokenCascade ==
    (Returned /\ Len(quoteList) > 0 /\ TokenDiffers) =>
        /\ AllWrappersRendered
        /\ outcome.Manifest.CardVersion = cfg.CardVersion
        /\ ~Load(fs.manifest).err
        /\ Load(fs.manifest).man # Nil
        /\ Load(fs.manifest).man[1].CardVersion = cfg.CardVersion

\* A run without Force where the token was unset and now is the empty
\* string: no record's wrapper fingerprint has changed.
TokenCascadeWitness ==
    /\ Returned /\ ~cfg.Force /\ TokenDiffers
    /\ Len(quoteList) = 2
    /\ loaded[1].CardVersion = Nil /\ cfg.CardVersion = <<"">>
    /\ \* nothing else than the token has changed
       AfterSuccess /\ last[1].static = static /\ last[1].quoteList = quoteList
    /\ \A i \in 1..Len(quoteList) : WrapperHashKept(quoteList[i])

\* C7 (CARD_VERSION forces card regeneration): a run whose CARD_VERSION
\* differs from the one of the previous run renders the card image of
\* every record again.
CardVersionRegeneratesCards ==
    (Returned /\ Len(quoteList) > 0 /\ AfterSuccess
       /\ last[1].cfg.CardVersion # cfg.CardVersion) =>
        /\ plan.dirtyCards = Ids(quoteList)
        /\ outcome.Result.CardsRendered = Len(quoteList)

\* The ids that have an entry in the manifest file on disk.
ManifestIds == IF fs.manifest.state = "valid" THEN DOMAIN fs.manifest.data[1].quotes ELSE {}

\* C8 (manifest safety): starting from an empty output tree and no
\* manifest, after any sequence of runs (with or without Force, returning
\* or aborted by an error at any step), every id that has an entry in the
\* manifest file on disk has its card cards/<id>.jpg and its wrapper
\* q/<id>/index.html on disk.
ManifestSafety ==
    pc = "idle" => \A id \in ManifestIds : Has(fs.cards, id) /\ Has(fs.wrappers, id)

\* C9 (no partial-success commit): in a run on a non-empty record list the
\* manifest file is not written before every artifact write and deletion
\* of the run has succeeded, and when a step of Execute returns an error
\* the manifest file is exactly what it was when the run started.
NoPartialCommit ==
    (begun # Nil /\ Len(quoteList) > 0 /\ ~Returned) => fs.manifest = begun[1].manifest

\* This run repeats, without Force, the run before it, which an error
\* aborted and which would have ended had no step failed.
Retried ==
    /\ last # Nil /\ ~last[1].ok
    /\ last[1].expected # {}
    /\ quoteList = last[1].quoteList
    /\ static = last[1].static
    /\ cfg = WithForce(last[1].cfg, FALSE)

\* C10 (retry after abort): when a run is aborted by an error, the run that
\* repeats it without Force on the same record list and Config, and that
\* returns without an error ends with the cards, wrappers, group pages and
\* manifest (but for its generation time) that the aborted run would have
\* left had it not been interrupted.
RetryAfterAbort ==
    (Returned /\ Retried) => StripTime(fs) \in last[1].expected

\* The latest run without Force that found no manifest file and returned
\* had the record list, the Config (but for Force) and the binary of this
\* run.
FreshTwin ==
    /\ last # Nil /\ last[1].fresh # Nil
    /\ last[1].fresh[1].quoteList = quoteList
    /\ last[1].fresh[1].static = static
    /\ last[1].fresh[1].cfg = WithForce(cfg, FALSE)

\* C11 (round trip): for a fixed non-empty record list, Config and binary,
\* the manifest a Force run saves equals, in every field but generatedAt
\* (global fingerprints, cache-bust token, every per-record entry), the
\* manifest saved by a run without Force that found no manifest, whatever
\* manifest the Force run found; in memory and in the file.
RoundTrip ==
    (Returned /\ cfg.Force /\ Len(quoteList) > 0 /\ FreshTwin) =>
        /\ Unstamped(outcome.Manifest) = last[1].fresh[1].Manifest
        /\ StripTime(fs).manifest = last[1].fresh[1].fs.manifest

\* A Force run of two records that found the manifest of a run on another
\* record list.
RoundTripWitness ==
    /\ Returned /\ cfg.Force /\ FreshTwin
    /\ Len(quoteList) = 2
    /\ loaded # Nil
    /\ DOMAIN loaded[1].Quotes # Ids(quoteList)

\* No step of the run has met an I/O or render error.
Unhindered == begun # Nil /\ faults = begun[1].faults

NoOutputs == fs.cards = EmptyMap /\ fs.wrappers = EmptyMap /\ fs.sources = EmptyMap

\* Every card, wrapper and group of the list is dirty.
AllDirty ==
    /\ plan.dirtyCards = Ids(quoteList)
    /\ plan.dirtyWrappers = Ids(quoteList)
    /\ plan.dirtyGroups = {buildGroupKey(quoteList[i]) : i \in 1..Len(quoteList)}

\* The run has ended as the latest run without Force that found neither a
\* manifest file nor an output file, if that run had the inputs of this one:
\* same cards, wrappers, pages, counters and manifest (but for its time).
EndsAsFromScratch ==
    (FreshTwin /\ last[1].fresh[1].clean) =>
        /\ StripTime(fs) = last[1].fresh[1].fs
        /\ outcome.Result = last[1].fresh[1].Result
        /\ Unstamped(outcome.Manifest) = last[1].fresh[1].Manifest

\* What a Force run on a non-empty list does when the manifest file it finds
\* is one of those in files ("absent", "valid", "corrupt"): it reaches the
\* computation of the dirty sets with the three trees wiped and the manifest
\* dropped, and, unless an I/O error aborts it, it returns with everything
\* dirty and ends as a run from scratch.
ForceIsFromScratch(files) ==
    (begun # Nil /\ cfg.Force /\ Len(quoteList) > 0 /\ begun[1].manifest.state \in files) =>
        /\ pc = "plan" => (NoOutputs /\ man = Nil)
        /\ (pc = "done" /\ Unhindered) =>
              (Returned /\ AllDirty /\ EndsAsFromScratch)

\* C12 as claimed (full-force mode is equivalent to treating the manifest
\* as absent): for any previous manifest file, be it none, stale or
\* undecodable, and any previous output tree, a Force run on a non-empty
\* list wipes cards/, q/ and sources/ before it computes the dirty sets,
\* marks every card, wrapper and group dirty, and ends with the outputs,
\* counters and manifest of a run without Force started with no manifest
\* file and empty output trees.
ForceAnyManifest == ForceIsFromScratch({"absent", "valid", "corrupt"})

\* C12 as amended: the same for any previous manifest file that is absent
\* or can be decoded (none or stale).
ForceDecodableManifest == ForceIsFromScratch({"absent", "valid"})

\* A Force run of two records that found output files and the manifest of
\* a run on another list, and that ended as the run from scratch did.
ForceDecodableManifestWitness ==
    /\ Returned /\ cfg.Force /\ FreshTwin /\ last[1].fresh[1].clean
    /\ Len(quoteList) = 2
    /\ ~begun[1].clean
    /\ loaded # Nil /\ DOMAIN loaded[1].Quotes # Ids(quoteList)

\* C13 (empty-input mode): when the record list is empty, a run that
\* returns without an error has left no file under cards/, q/ and sources/
\* and no manifest file, has rendered and removed nothing by its counters
\* and returns the zero manifest; the run never writes a manifest file (the
\* file is what it was or is gone); and when there was no manifest file the
\* run returns without an error unless an I/O error aborts it.
EmptyInputMode ==
    (begun # Nil /\ Len(quoteList) = 0) =>
        /\ fs.manifest \in {begun[1].manifest, AbsentFile}
        /\ Returned =>
              /\ NoOutputs
              /\ fs.manifest = AbsentFile
              /\ outcome.Result = NewResult(0)
              /\ outcome.Manifest = [Quotes |-> EmptyMap]
        /\ (pc = "done" /\ Unhindered /\ begun[1].manifest.state # "corrupt") => Returned

\* A run on the empty list after a run that had rendered two records and
\* saved their manifest.
EmptyInputModeWitness ==
    /\ Returned /\ Len(quoteList) = 0
    /\ begun[1].manifest.state = "valid"
    /\ AfterSuccess /\ Len(last[1].quoteList) = 2

\* Every record of the list has its card, its wrapper and the page of its
\* group on disk as this run renders them, and the counters say so.
AllRendered ==
    /\ outcome.Result.CardsRendered = Len(quoteList)
    /\ outcome.Result.WrappersRendered = Len(quoteList)
    /\ outcome.Result.SourcePagesRendered = Cardinality(plan.dirtyGroups)
    /\ \A i \in 1..Len(quoteList) :
          LET q == quoteList[i] IN
          /\ Has(fs.cards, q.ID) /\ fs.cards[q.ID] = RenderQuoteCard(q.Quote)
          /\ Has(fs.wrappers, q.ID)
          /\ fs.wrappers[q.ID] = Apply(static.WrapperTemplate, buildWrapperPayload(q, cfg))
          /\ LET grp == plan.sourceGroups[buildGroupKey(q)] IN
             /\ Has(fs.sources, SourcePath(grp.domain, grp.slug))
             /\ fs.sources[SourcePath(grp.domain, grp.slug)] = buildSourceGroupHTML(grp, cfg)
             /\ q.ID \in ListedIds(fs.sources[SourcePath(grp.domain, grp.slug)])

\* C14 (a missing manifest means a full rebuild): manifest.Load of a file
\* that does not exist reports no error and no manifest; a run without
\* Force on a non-empty list that finds no manifest file goes on to the
\* dirty sets with no manifest, and when it returns it has marked the card,
\* the wrapper and the group of every record dirty and has rendered them
\* all.
MissingManifestRebuilds ==
    /\ Load(AbsentFile) = [err |-> FALSE, man |-> Nil]
    /\ (begun # Nil /\ ~cfg.Force /\ Len(quoteList) > 0 /\ begun[1].manifest = AbsentFile) =>
          /\ (pc = "done" /\ Unhindered) => Returned
          /\ pc # "load" => (loaded = Nil /\ man = Nil)
          /\ Returned => (AllDirty /\ AllRendered)

\* A run without Force of two records of two groups that found no manifest
\* file, but the output files an aborted run had left.
MissingManifestRebuildsWitness ==
    /\ Returned /\ ~cfg.Force /\ Len(quoteList) = 2
    /\ begun[1].manifest = AbsentFile
    /\ Cardinality(plan.dirtyGroups) = 2
    /\ last # Nil /\ ~last[1].ok /\ last[1].quoteList = quoteList

\* C15 (a corrupt manifest is fatal): when the manifest file is there and
\* cannot be decoded, the step Execute takes from its start is to return
\* an error, with every output file and the manifest file as they were;
\* it does not go on as if there were no manifest, with or without Force.
CorruptManifestFatal ==
    [][ (pc = "load" /\ fs.manifest.state = "corrupt") =>
            (fs' = fs /\ pc' = "done" /\ outcome' = Failed) ]_vars

\* A Force run on a non-empty list, with output files on disk, that has
\* returned the decode error.
CorruptManifestFatalWitness ==
    /\ pc = "done" /\ outcome = Failed /\ Unhindered
    /\ begun[1].manifest.state = "corrupt"
    /\ fs.manifest = begun[1].manifest
    /\ cfg.Force /\ Len(quoteList) > 0
    /\ ~NoOutputs

\* C16 (the manifest lists the current records): after a run on a
\* non-empty list of records with unique ids has returned without an
\* error, the manifest file decodes to a manifest whose per-record map has
\* exactly the ids of the list as keys; the entry of every record holds its
\* three current fingerprints and its group key, domain and slug; no id of
\* the previous manifest that the list lacks has an entry; the manifest
\* Execute returns has the same map.
ManifestListsCurrent ==
    (Returned /\ Len(quoteList) > 0) =>
        LET l == Load(fs.manifest) IN
        /\ ~l.err /\ l.man # Nil
        /\ DOMAIN l.man[1].Quotes = Ids(quoteList)
        /\ (DOMAIN l.man[1].Quotes) \cap Dropped = {}
        /\ outcome.Manifest.Quotes = l.man[1].Quotes
        /\ \A i \in 1..Len(quoteList) :
              LET q == quoteList[i]
                  e == l.man[1].Quotes[q.ID]
                  now == buildManifestEntry(q, buildGroupKey(q), cfg)
              IN  /\ e.CardHash = now.CardHash
                  /\ e.WrapperHash = now.WrapperHash
                  /\ e.GroupItemHash = now.GroupItemHash
                  /\ e.SourceKey = q.SourceDomain \o "__" \o q.ArticleSlug
                  /\ e.SourceDomain = q.SourceDomain
                  /\ e.ArticleSlug = q.ArticleSlug

\* A run without Force of two records, one of them new, after a run whose
\* manifest lists a record that is gone.
ManifestListsCurrentWitness ==
    /\ Returned /\ ~cfg.Force /\ Len(quoteList) = 2
    /\ loaded # Nil
    /\ Dropped # {}
    /\ Ids(quoteList) \cap DOMAIN loaded[1].Quotes # {}
    /\ Ids(quoteList) \ DOMAIN loaded[1].Quotes # {}

\* The records at i and j of the list are listed on one page on disk.
OnePage(i, j) ==
    \E path \in DOMAIN fs.sources :
        {quoteList[i].ID, quoteList[j].ID} \subseteq ListedIds(fs.sources[path])

\* Execute has given the records at i and j one group key.
OneGroup(i, j) ==
    plan.nextManifestQuotes[quoteList[i].ID].SourceKey
        = plan.nextManifestQuotes[quoteList[j].ID].SourceKey

\* The two URLs differ at most by the slash that ends the path and by the
\* fragment.
SameButSlashAndFragment(u, v) ==
    [u EXCEPT !.slash = FALSE, !.fragment = ""] = [v EXCEPT !.slash = FALSE, !.fragment = ""]

\* C17 (same normalized URL, same group): two records Load returns whose
\* normalized URLs are equal get the same group key in Execute and are
\* listed on the same aggregation page; so do the records of two files
\* whose URLs differ only by a trailing slash or a fragment.
SameURLSameGroup ==
    (Returned /\ Len(quoteList) > 0) =>
        /\ \A i, j \in 1..Len(quoteList) :
              quoteList[i].NormalizedURL = quoteList[j].NormalizedURL =>
                  (OneGroup(i, j) /\ OnePage(i, j))
        /\ \A u \in URLs : \A slash \in BOOLEAN, fragment \in {"", "f"} :
              LET v == [u EXCEPT !.slash = slash, !.fragment = fragment] IN
              /\ SameButSlashAndFragment(u, v)
              /\ buildGroupKey(LoadQuote(FrontMatter("q1", "t1", URLString(u), "", "")))
                    = buildGroupKey(LoadQuote(FrontMatter("q2", "t3", URLString(v), "", "")))

\* C18 (a group is the records of one normalized URL): the records that
\* Execute places in one group, with one group key and on one aggregation
\* page, have the same normalized source URL.
SameGroupSameURL ==
    (Returned /\ Len(quoteList) > 0) =>
        \A i, j \in 1..Len(quoteList) :
            (OneGroup(i, j) \/ OnePage(i, j)) =>
                quoteList[i].NormalizedURL = quoteList[j].NormalizedURL

\* Where the record with this id stands in list.
PositionIn(list, id) == CHOOSE i \in 1..Len(list) : list[i].ID = id

\* The createdAt of a record; one without a timestamp counts as the epoch.
CreatedOf(q) == IF q.CreatedAt = Nil THEN Unix(0, 0) ELSE q.CreatedAt[1]

Later(a, b) == a.sec > b.sec \/ (a.sec = b.sec /\ a.nsec > b.nsec)

\* ids is an arrangement of the ids of list, newest record first, records
\* of one createdAt in the order they have in list.
NewestFirstStable(list, ids) ==
    /\ Len(ids) = Len(list)
    /\ {ids[a] : a \in 1..Len(ids)} = Ids(list)
    /\ \A a, b \in 1..Len(ids) :
          a < b =>
              LET i == PositionIn(list, ids[a])
                  j == PositionIn(list, ids[b])
              IN  \/ Later(CreatedOf(list[i]), CreatedOf(list[j]))
                  \/ (CreatedOf(list[i]) = CreatedOf(list[j]) /\ i < j)

\* The records of the list that have this group key, in list order.
MembersOf(groupKey) == SelectSeq(quoteList, LAMBDA q : buildGroupKey(q) = groupKey)

\* C19 (group page order): every aggregation page a run renders lists the
\* members of its group in descending createdAt order, members of equal
\* createdAt in the order they have in the input list.
GroupPageOrder ==
    (Returned /\ Len(quoteList) > 0) =>
        \A groupKey \in plan.dirtyGroups :
            ~GroupIsGone(plan, groupKey) =>
                LET grp == plan.sourceGroups[groupKey]
                    path == SourcePath(grp.domain, grp.slug)
                IN  /\ Has(fs.sources, path)
                    /\ NewestFirstStable(MembersOf(groupKey), Listed(fs.sources[path]))

\* The candidate font sizes: 72, 70, ..., 36.
CandidateSizes == {72 - 2 * k : k \in 0..18}

\* The number of word-wrapped lines of the text at size s and width 900.
lineCount(text, s) == Wrapped(Display(text), s, 900)

\* lineCount(s) * s * 1.32 <= 388.
FitsCanvas(text, s) == lineCount(text, s) * s * 132 <= 388 * 100

\* C20 (text-fit selection): the card RenderQuoteCard draws of a text is
\* set at the largest of the sizes 72, 70, ..., 36 at which the text fits,
\* that is lineCount(s) * s * 1.32 <= 388 with lineCount(s) the number of
\* word-wrapped lines at width 900, when there is such a size; a text of at
\* most 4 lines at size 72 is set at 72.  So it is for every card a run
\* has rendered and for every text of the model.
TextFit ==
    Returned =>
        /\ \A id \in plan.dirtyCards :
              /\ Has(fs.cards, id)
              /\ fs.cards[id] = RenderQuoteCard(fs.cards[id].text)
        /\ \A text \in {Layouts[i][1] : i \in 1..Len(Layouts)} \cup {"t6"} :
              LET card == RenderQuoteCard(text) IN
              /\ card.size \in CandidateSizes
              /\ card.lines = lineCount(text, card.size)
              /\ (\E s \in CandidateSizes : FitsCanvas(text, s)) =>
                    /\ FitsCanvas(text, card.size)
                    /\ \A s \in CandidateSizes : s > card.size => ~FitsCanvas(text, s)
              /\ lineCount(text, 72) <= 4 => card.size = 72

\* A run has rendered a card of 3 words on one line at size 72 and a card
\* of 13 words that make 5 lines at 72 and 4 lines at 70, set at 70.
TextFitWitness ==
    /\ Returned
    /\ \E a, b \in plan.dirtyCards :
          /\ fs.cards[a].size = 72 /\ fs.cards[a].lines = 1
          /\ fs.cards[b].size = 70 /\ fs.cards[b].lines = 4
          /\ lineCount(fs.cards[b].text, 72) = 5

\* No candidate size fits the text.
Overflows(text) == \A s \in CandidateSizes : ~FitsCanvas(text, s)

\* The texts of the model.
Texts == {Layouts[i][1] : i \in 1..Len(Layouts)} \cup {"t6"}

\* C21 (text-fit fallback): a text that fits at none of the sizes 72, 70,
\* ..., 36 does not make the renderer fail: a run on a list with such a
\* text that no I/O error aborts returns without an error, and the card of
\* the text is an image of 1200 by 628 set at size 36 with the lines the
\* text wraps to at 36.  The size of every card is one of the candidate
\* sizes.
TextFitFallback ==
    /\ (pc = "done" /\ Unhindered /\ begun[1].manifest.state # "corrupt") => Returned
    /\ Returned =>
          /\ \A id \in plan.dirtyCards :
                LET card == fs.cards[id] IN
                /\ card.size \in CandidateSizes
                /\ card.width = 1200 /\ card.height = 628
                /\ Overflows(card.text) =>
                      (card.size = 36 /\ card.lines = lineCount(card.text, 36))
          /\ \A text \in Texts :
                LET card == RenderQuoteCard(text) IN
                /\ card.size \in CandidateSizes
                /\ card.width = 1200 /\ card.height = 628
                /\ Overflows(text) =>
                      (card.size = 36 /\ card.lines = lineCount(text, 36))

\* A run has rendered the card of a text of 9 lines at size 36, which are
\* higher than the 388 available.
TextFitFallbackWitness ==
    /\ Returned
    /\ \E id \in plan.dirtyCards :
          /\ Overflows(fs.cards[id].text)
          /\ fs.cards[id].size = 36 /\ fs.cards[id].lines = 9
          /\ fs.cards[id].lines * 36 * 132 > 388 * 100

\* main has returned without calling Execute.
NoBuild == pc = "done" /\ cli # Nil /\ outcome.status \in {"invalid", "validated"}

\* The fatal validation errors of the files of a directory: a file without
\* front matter; a missing id, quote, name or url; the id of a file that
\* comes before it; a url that is no URL with scheme and host.
HasFatalError(dir, f) ==
    \/ f.fm = Nil
    \/ f.fm[1].id = "" \/ f.fm[1].quote = "" \/ f.fm[1].name = "" \/ f.fm[1].url = ""
    \/ \E g \in dir : g.fm # Nil /\ g.fm[1].id = f.fm[1].id
                       /\ StringRank(g.path) < StringRank(f.path)
    \/ f.fm[1].url \in {NoURL, RelativeURL}

ValidRecord(q) ==
    /\ q.ID # "" /\ q.Quote # "" /\ q.Name # "" /\ q.URL # ""
    /\ ~normalizeURL(q.URL).err

\* C23 (no invalid record in the list): every record of the list Load
\* returns has an id, a text, an attribution and a well-formed source URL,
\* and an id no other record of the list has; a file with a fatal error
\* (a missing required field, the id of an earlier file, a malformed URL)
\* has an entry in Errors and no record in the list.
LoaderRejects ==
    cli # Nil =>
        \A order \in LoadOrders(cli.dir) :
            LET r == quotesLoad(cli.dir, order)
                invalid == {f \in cli.dir : HasFatalError(cli.dir, f)}
            IN  /\ \A i \in 1..Len(r.Quotes) :
                      /\ ValidRecord(r.Quotes[i])
                      /\ \A j \in 1..Len(r.Quotes) : r.Quotes[i].ID = r.Quotes[j].ID => i = j
                /\ \A f \in invalid : \E k \in 1..Len(r.Errors) : r.Errors[k][1] = f.path
                /\ Len(r.Quotes) = Cardinality(cli.dir \ invalid)

\* The files of the directory that Load reads a front matter from and
\* whose normalized URL is u.
FilesOfURL(dir, u) == {f \in dir : f.fm # Nil /\ normalizeURL(f.fm[1].url).normalized = u}

\* The entries of a list of warnings or errors that match.
Count(list, Test(_)) == Cardinality({k \in 1..Len(list) : Test(list[k])})

\* C24 (id collision and URL collision): a file whose id is the id of an
\* earlier file of the directory adds an entry to the Errors that Load
\* returns; files that share a normalized URL add one entry to Warnings
\* for that URL, whatever their number, and none to Errors: Errors is
\* empty when no file has a fatal error of its own.
CollisionAsymmetry ==
    cli # Nil =>
        \A order \in LoadOrders(cli.dir) :
            LET r == quotesLoad(cli.dir, order)
                urls == {normalizeURL(f.fm[1].url).normalized : f \in {g \in cli.dir : g.fm # Nil}}
            IN  /\ \A f \in cli.dir :
                      (f.fm # Nil /\ \E g \in cli.dir :
                          /\ g.fm # Nil /\ g.fm[1].id = f.fm[1].id
                          /\ StringRank(g.path) < StringRank(f.path)) =>
                      Count(r.Errors, LAMBDA e : e[1] = f.path) > 0
                /\ \A u \in urls \ {""} :
                      Count(r.Warnings, LAMBDA w : w[1] = "multiple quotes" /\ w[2] = u)
                          = IF Cardinality(FilesOfURL(cli.dir, u)) > 1 THEN 1 ELSE 0
                /\ Count(r.Errors, LAMBDA e : e[1] = "multiple quotes") = 0
                /\ (\A f \in cli.dir : ~HasFatalError(cli.dir, f)) => r.Errors = <<>>

\* The CLI has loaded a.md, b.md and c.md, three files of one normalized
\* URL of which c.md has the id of a.md: one error, for c.md, and one
\* warning, which names the three.
CollisionAsymmetryWitness ==
    /\ NoBuild
    /\ Cardinality(cli.dir) = 3
    /\ outcome.Errors = << <<"c.md", "duplicate id">> >>
    /\ outcome.Warnings = << <<"multiple quotes", "https://a/x", <<"q1", "q1", "q2">> >> >>

\* The ids of the list are pairwise distinct.
DistinctIds == \A i, j \in 1..Len(quoteList) : quoteList[i].ID = quoteList[j].ID => i = j

\* C25 (every write has a path of its own): in a run on records with
\* pairwise distinct ids, no two records whose cards are written have one
\* card file, no two records whose wrappers are written have one wrapper
\* file, and no two groups whose pages are written have one page path
\* sources/<domain>/<slug>/index.html.
DistinctWrites ==
    (Returned /\ Len(quoteList) > 0 /\ DistinctIds) =>
        /\ \A a, b \in plan.dirtyCards : CardPath(a) = CardPath(b) => a = b
        /\ \A a, b \in plan.dirtyWrappers : WrapperPath(a) = WrapperPath(b) => a = b
        /\ \A g, h \in {k \in plan.dirtyGroups : ~GroupIsGone(plan, k)} :
              SourcePath(plan.sourceGroups[g].domain, plan.sourceGroups[g].slug)
                = SourcePath(plan.sourceGroups[h].domain, plan.sourceGroups[h].slug) => g = h

\* The goroutines that are between Lock and Unlock.
InCache == {g \in Goroutines : goroutines[g].at \in {"lookup", "new", "store", "unlock"}}

\* C26 (the font-face cache under concurrent calls): in every interleaving
\* of the steps of concurrent getFontFace calls, the lookup and the insert
\* of a call run while the call holds the mutex of the cache, so at most
\* one call is at them at a time; NewFace is called at most once for a
\* size, the cache holds that face, and every call for the size returns it.
FaceCacheSafe ==
    /\ Cardinality(InCache) <= 1
    /\ \A g \in InCache : faceCache.mutex = <<g>>
    /\ \A f, h \in constructed : f.size = h.size => f = h
    /\ \A size \in DOMAIN faceCache.faces : faceCache.faces[size] \in constructed
    /\ \A g \in Goroutines :
          goroutines[g].returned # Nil =>
              /\ goroutines[g].returned[1] \in constructed
              /\ goroutines[g].returned[1].size = goroutines[g].size
              /\ faceCache.faces[goroutines[g].size] = goroutines[g].returned[1]

\* Three calls for size 72, at least one of which found the cache empty,
\* have returned one face while a face of size 70 is cached too.
FaceCacheSafeWitness ==
    /\ \A g \in Goroutines :
          /\ goroutines[g].at = "out" /\ goroutines[g].size = 72
          /\ goroutines[g].returned = <<[size |-> 72, n |-> 1]>>
    /\ DOMAIN faceCache.faces = {72, 70}

\* Execute has computed the dirty sets of a run on a non-empty list.
Planned == pc \in {"remove", "cards", "wrappers", "groups", "save", "done"} /\ begun # Nil
              /\ outcome.status # "error" /\ Len(quoteList) > 0

\* The previous manifest, as the file the run started on holds it.
Previous == Load(begun[1].manifest).man

\* The setup of this run differs from that of the run before at most in
\* the wrapper template, the source template, the cache-bust token, the
\* base path and the site origin.
OnlyPagesSetupDiffers ==
    [static EXCEPT !.WrapperTemplate = "", !.SourceTemplate = ""]
        = [last[1].static EXCEPT !.WrapperTemplate = "", !.SourceTemplate = ""]

Consulted == IF cfg.Force THEN Nil ELSE loaded

\* The records of the list whose group is key.
Members(key) == {i \in 1..Len(quoteList) : buildGroupKey(quoteList[i]) = key}

\* The ids of the previous manifest that are not in the list.
Absent == (DOMAIN manifestQuotesOf(Consulted)) \ Ids(quoteList)

\* The groups of a run: those of the records of the list and those the
\* previous entries name.
GroupKeys ==
    {buildGroupKey(quoteList[i]) : i \in 1..Len(quoteList)}
        \cup {manifestQuotesOf(Consulted)[id].SourceKey : id \in DOMAIN manifestQuotesOf(Consulted)}

\* The version of the source-page renderer or the fingerprint of the source
\* template is not that of the previous manifest.
SourceSetupChanged ==
    \/ Consulted = Nil
    \/ Consulted[1].SourceRenderVersion # static.sourceRenderVersion
    \/ Consulted[1].SourceTemplateHash # sourceTemplateHash

\* The record has no previous entry, or its group-item fingerprint or its
\* group key is not that of the entry.
MemberChanged(q) ==
    \/ q.ID \notin DOMAIN manifestQuotesOf(Consulted)
    \/ manifestQuotesOf(Consulted)[q.ID].GroupItemHash
          # buildManifestEntry(q, buildGroupKey(q), cfg).GroupItemHash
    \/ manifestQuotesOf(Consulted)[q.ID].SourceKey # buildGroupKey(q)

Untouched(before, after, path) ==
    /\ Has(before, path) <=> Has(after, path)
    /\ Has(before, path) => before[path] = after[path]

\* A step of a run without Force after its dirty sets are made.
Producing == pc \in {"remove", "cards", "wrappers", "groups", "save"} /\ ~cfg.Force

\* C29 (only dirty artifacts are produced): no step of a run without Force
\* writes or deletes the card file of a record of the list whose card is
\* not dirty, the wrapper page of a record whose wrapper is not dirty, or
\* the page of a group of the list that is not dirty; and when the run has
\* returned it has rendered as many cards, wrappers and group pages as
\* there are dirty records and dirty groups with records.
OnlyDirtyProduced ==
    /\ [][Producing =>
            /\ \A i \in 1..Len(quoteList) :
                  /\ quoteList[i].ID \notin plan.dirtyCards
                        => Untouched(fs.cards, fs'.cards, CardPath(quoteList[i].ID))
                  /\ quoteList[i].ID \notin plan.dirtyWrappers
                        => Untouched(fs.wrappers, fs'.wrappers, WrapperPath(quoteList[i].ID))
            /\ \A key \in DOMAIN plan.sourceGroups :
                  key \notin plan.dirtyGroups
                    => Untouched(fs.sources, fs'.sources,
                                 SourcePath(plan.sourceGroups[key].domain,
                                            plan.sourceGroups[key].slug))]_vars
    /\ []((Returned /\ ~cfg.Force /\ Len(quoteList) > 0) =>
            /\ outcome.Result.CardsRendered = Len(DirtyIn(quoteList, plan.dirtyCards))
            /\ outcome.Result.WrappersRendered = Len(DirtyIn(quoteList, plan.dirtyWrappers))
            /\ outcome.Result.SourcePagesRendered
                  = Cardinality(plan.dirtyGroups \cap DOMAIN plan.sourceGroups))

\* Every id of the previous manifest that is not in the list is among the
\* removed records, with its previous entry, and the group that entry
\* names is dirty.
RemovalsPlanned ==
    \A id \in Absent :
        /\ \E k \in 1..Len(plan.removedQuotes) :
              plan.removedQuotes[k] = [id |-> id, entry |-> manifestQuotesOf(Consulted)[id]]
        /\ manifestQuotesOf(Consulted)[id].SourceKey \in plan.dirtyGroups

RecordsRendered ==
    /\ result.CardsRendered = Len(DirtyIn(quoteList, plan.dirtyCards))
    /\ result.WrappersRendered = Len(DirtyIn(quoteList, plan.dirtyWrappers))

\* The records of the list whose group is key, newest first.
FullGroup(key) == SortByTime(SelectSeq(quoteList, LAMBDA q : buildGroupKey(q) = key))

\* The dirty groups that have records in the list.
Rendered(p) == p.dirtyGroups \cap DOMAIN p.sourceGroups

\* The step that renders the group pages starts when the cards and the
\* wrappers are written, has every dirty group hold all its records of the
\* list, newest first, and every page it writes is built from such a group.
AfterBarrier ==
    /\ pc = "groups"
    /\ RecordsRendered
    /\ \A key \in Rendered(plan') : plan'.sourceGroups[key].quotes = FullGroup(key)
    /\ \A path \in DOMAIN fs'.sources :
          ~Untouched(fs.sources, fs'.sources, path) =>
              \E key \in Rendered(plan') :
                  /\ path = SourcePath(plan'.sourceGroups[key].domain,
                                       plan'.sourceGroups[key].slug)
                  /\ fs'.sources[path] = buildSourceGroupHTML(plan'.sourceGroups[key], cfg)

\* C31 as stated (barrier in every run): no step of any run writes or
\* deletes a group page before every dirty card and every dirty wrapper of
\* the run is written, and each page is built from all the records of its
\* group, sorted.
BarrierInEveryRun == [][fs'.sources # fs.sources => AfterBarrier]_vars

\* C31 (barrier between records and groups): apart from the removal of the
\* whole output trees, under Force and on the empty list, no step of a run
\* writes or deletes a group page before every dirty card and every dirty
\* wrapper of the run is written, and each page is built from all the
\* records of its group, sorted after all records have joined their groups.
Barrier ==
    [][(fs'.sources # fs.sources /\ pc \notin {"force", "empty"}) => AfterBarrier]_vars

\* A run on q2 and q1, in this order, has written both cards and both
\* wrappers and then the page of their group, which lists q1 before q2.
BarrierWitness ==
    /\ pc = "save"
    /\ Len(quoteList) = 2 /\ quoteList[1].ID = "q2" /\ quoteList[2].ID = "q1"
    /\ result.CardsRendered = 2 /\ result.WrappersRendered = 2
    /\ result.SourcePagesRendered = 1
    /\ plan.sourceGroups[buildGroupKey(quoteList[1])].quotes = <<quoteList[2], quoteList[1]>>
    /\ fs.sources[SourcePath("a", "x")]
          = buildSourceGroupHTML(plan.sourceGroups[buildGroupKey(quoteList[1])], cfg)

\* The lists that hold the elements of list in another order.
Reorderings(list) ==
    {[i \in 1..Len(list) |-> list[o[i]]] : o \in Orders(1..Len(list))}

\* The two lists hold the same records in the same order, up to the order
\* of the tags of each.
SameUpToTagOrder(before, after) ==
    /\ Len(before) = Len(after)
    /\ \A i \in 1..Len(after) :
          \E tags \in Reorderings(before[i].Tags) : after[i] = [before[i] EXCEPT !.Tags = tags]

\* C32 (tag order): buildManifestEntry gives a record and the record with
\* its tags in any other order the same card fingerprint and the same
\* group-item fingerprint; a run without Force after a successful run with
\* the same setup on the same records, their tags reordered, makes no
\* card, wrapper or group dirty; and making the dirty sets leaves the
\* records of the list, their tags included, as they were.
TagOrder ==
    /\ [](\A q \in world.corpus : \A tags \in Reorderings(q.Tags) :
            LET e1 == buildManifestEntry(q, buildGroupKey(q), cfg)
                e2 == buildManifestEntry([q EXCEPT !.Tags = tags], buildGroupKey(q), cfg)
            IN  e1.CardHash = e2.CardHash /\ e1.GroupItemHash = e2.GroupItemHash)
    /\ []((Planned /\ ~cfg.Force /\ AfterSuccess /\ SameSetup
             /\ SameUpToTagOrder(last[1].quoteList, quoteList))
           => plan.dirtyCards = {} /\ plan.dirtyWrappers = {} /\ plan.dirtyGroups = {})
    /\ [][pc = "plan" => quoteList' = quoteList]_vars

\* A run without Force on q1 with the tags a, b after a run on q1 with the
\* tags b, a has found nothing dirty.
TagOrderWitness ==
    /\ Returned /\ ~cfg.Force /\ AfterSuccess /\ SameSetup
    /\ last[1].quoteList = <<QuoteP>> /\ quoteList = <<QuotePTags>>
    /\ plan.dirtyCards = {} /\ plan.dirtyWrappers = {} /\ plan.dirtyGroups = {}
    /\ Touched(outcome.Result) = 0

\* The record of the list with this id.
RecordOf(id) == quoteList[PositionIn(quoteList, id)]

\* The seconds since the epoch of the record's createdAt, 0 without one.
ValueOrZero(q) == IF q.CreatedAt = Nil THEN 0 ELSE q.CreatedAt[1].sec

\* On every page the run has rendered the records are in the order of
\* their time values, 0 for a record without createdAt, and no record
\* without createdAt comes before a record the test holds of.
UndatedAfter(Dated(_)) ==
    (Returned /\ Len(quoteList) > 0) =>
        \A key \in Rendered(plan) :
            LET grp == plan.sourceGroups[key]
                path == SourcePath(grp.domain, grp.slug)
                ids == Listed(fs.sources[path])
            IN  Has(fs.sources, path) =>
                    \A a, b \in 1..Len(ids) :
                        a < b =>
                            /\ ValueOrZero(RecordOf(ids[a])) >= ValueOrZero(RecordOf(ids[b]))
                            /\ ~(RecordOf(ids[a]).CreatedAt = Nil /\ Dated(RecordOf(ids[b])))

\* C33 as stated (undated records last): on a rendered page a record
\* without createdAt is ordered as if its time value were 0 and comes after
\* every record of the page that has a createdAt.
UndatedLast == UndatedAfter(LAMBDA q : q.CreatedAt # Nil)

\* C33 (undated records sort with value 0): on a rendered page a record
\* without createdAt is ordered as if its time value were 0 and comes after
\* every record of the page whose createdAt is a second or more after the
\* epoch.
UndatedAsZero == UndatedAfter(LAMBDA q : q.CreatedAt # Nil /\ q.CreatedAt[1].sec >= 1)

\* A run on the record without createdAt and then q2, created one second
\* after the epoch, has rendered their page with q2 first.
UndatedAsZeroWitness ==
    /\ Returned /\ quoteList = <<QuoteUndated, QuoteQ>>
    /\ plan.dirtyGroups = {buildGroupKey(QuoteQ)}
    /\ Listed(fs.sources[SourcePath("a", "x")]) = <<"q2", "q4">>

\* The groups of the records of the list.
CurrentGroups == {buildGroupKey(quoteList[i]) : i \in 1..Len(quoteList)}

\* But for the base path and the site origin, the run has the records and
\* the setup of the run before it.
OnlyLinksDiffer ==
    /\ last[1].quoteList = quoteList
    /\ last[1].static = static
    /\ last[1].cfg.CardVersion = cfg.CardVersion

\* C34 (base path and site origin): in a run without Force on a non-empty
\* list that follows a successful run, every wrapper and every group of
\* the list is dirty when the base path is not that of the run before, and
\* every wrapper is dirty when the site origin is not; when nothing but
\* the base path or the site origin differs from the run before, no card
\* is dirty.
LinksCovered ==
    (Planned /\ ~cfg.Force /\ AfterSuccess) =>
        /\ last[1].cfg.BasePath # cfg.BasePath =>
              plan.dirtyWrappers = Ids(quoteList) /\ CurrentGroups \subseteq plan.dirtyGroups
        /\ last[1].cfg.SiteOrigin # cfg.SiteOrigin => plan.dirtyWrappers = Ids(quoteList)
        /\ OnlyLinksDiffer => plan.dirtyCards = {}

\* A run on q1 and q3 with another site origin than the run before, on the
\* same records: both wrappers are dirty, no card and no group is.
LinksCoveredWitness ==
    /\ Returned /\ ~cfg.Force /\ AfterSuccess /\ OnlyLinksDiffer
    /\ Ids(quoteList) = {"q1", "q3"}
    /\ last[1].cfg.BasePath = cfg.BasePath /\ last[1].cfg.SiteOrigin # cfg.SiteOrigin
    /\ plan.dirtyWrappers = {"q1", "q3"} /\ plan.dirtyCards = {} /\ plan.dirtyGroups = {}

\* C35 (per-record outputs track the input): in a world where no run is
\* aborted, starting from an empty disk, when a run has returned the card
\* files are those of the ids of its list, the wrapper directories
\* likewise, and each holds what rendering the record of the list under the
\* Config of the run gives.
OutputsTrackInput ==
    (Returned /\ world.faults = 0) =>
        /\ DOMAIN fs.cards = {CardPath(id) : id \in Ids(quoteList)}
        /\ DOMAIN fs.wrappers = {WrapperPath(id) : id \in Ids(quoteList)}
        /\ \A i \in 1..Len(quoteList) :
              LET q == quoteList[i] IN
              /\ fs.cards[CardPath(q.ID)] = RenderQuoteCard(q.Quote)
              /\ fs.wrappers[WrapperPath(q.ID)]
                    = Apply(static.WrapperTemplate, buildWrapperPayload(q, cfg))

\* The path of the page of a group of the list: that of its first record.
PagePath(key) == SourcePath(MembersOf(key)[1].SourceDomain, MembersOf(key)[1].ArticleSlug)

\* C36 (pages track group membership): in a world where no run is aborted,
\* starting from an empty disk, when a run has returned the group pages on
\* disk are those of the groups of its list and each lists the ids of the
\* records of its group and no other; so it is when a record of the list
\* has another group key than in the run before.
PagesTrackGroups ==
    (Returned /\ world.faults = 0) =>
        /\ DOMAIN fs.sources = {PagePath(key) : key \in CurrentGroups}
        /\ \A key \in CurrentGroups :
              ListedIds(fs.sources[PagePath(key)]) = Ids(MembersOf(key))

\* The groups a run under Force makes of the list, sorted: it consults no
\* manifest.
ForceGroups == SortGroups(PlanOf(quoteList, Nil, cfg, <<>>).sourceGroups)

\* C37 (order of the list): when a run without Force has returned after a
\* successful run without Force with the same setup on the same records in
\* another order, the page of every group is the page a run under Force on
\* the list would write.
OrderIndependent ==
    (Returned /\ ~cfg.Force /\ AfterSuccess /\ ~last[1].cfg.Force /\ SameSetup
       /\ world.faults = 0 /\ Len(quoteList) > 0
       /\ quoteList # last[1].quoteList
       /\ quoteList \in Reorderings(last[1].quoteList)) =>
        \A key \in CurrentGroups :
            /\ Has(fs.sources, PagePath(key))
            /\ fs.sources[PagePath(key)] = buildSourceGroupHTML(ForceGroups[key], cfg)

\* The source domain and the article slug of a record.
GroupPair(q) == <<q.SourceDomain, q.ArticleSlug>>

\* C38 (group key injective): buildGroupKey gives two records whose source
\* domain or article slug differ two keys, so the records a run puts in
\* one group, and lists on one page, have one source domain and one
\* article slug.
GroupKeyInjective ==
    /\ \A q1, q2 \in world.corpus :
          GroupPair(q1) # GroupPair(q2) => buildGroupKey(q1) # buildGroupKey(q2)
    /\ Planned =>
          \A key \in DOMAIN plan.sourceGroups :
              \A i, j \in 1..Len(plan.sourceGroups[key].quotes) :
                  GroupPair(plan.sourceGroups[key].quotes[i])
                    = GroupPair(plan.sourceGroups[key].quotes[j])

\* The disks a run under Force on the list may end with.
ForceOutputs == Uninterrupted(EmptyDisk, quoteList, WithForce(cfg, TRUE))

\* C39 (recovery after an aborted run): when a run without Force has
\* returned and the run before it was a run without Force that an error
\* aborted, the cards, the wrappers and the group pages are those a run
\* under Force on the list would leave, whatever the list.
RecoveryOnAnyList ==
    (Returned /\ ~cfg.Force /\ last # Nil /\ ~last[1].ok /\ ~last[1].cfg.Force) =>
        \E d \in ForceOutputs :
            d.cards = fs.cards /\ d.wrappers = fs.wrappers /\ d.sources = fs.sources

\* The tags of the record, as a set.
TagSet(q) == {q.Tags[i] : i \in 1..Len(q.Tags)}

\* The two records differ in their tags only, and their tags differ as sets.
OnlyTagSetDiffers(q1, q2) ==
    /\ [q1 EXCEPT !.Tags = <<>>] = [q2 EXCEPT !.Tags = <<>>]
    /\ TagSet(q1) # TagSet(q2)

\* C40 (fingerprints injective in the tag set): buildManifestEntry gives two
\* records that differ only in their tags, by more than the order, two card
\* fingerprints and two group-item fingerprints; so a run without Force
\* after a successful run on the same list but for such a change of the
\* tags of a record finds the card and the group of the record dirty.
TagSetInjective ==
    /\ \A q1, q2 \in world.corpus :
          OnlyTagSetDiffers(q1, q2) =>
              LET e1 == buildManifestEntry(q1, buildGroupKey(q1), cfg)
                  e2 == buildManifestEntry(q2, buildGroupKey(q2), cfg)
              IN  e1.CardHash # e2.CardHash /\ e1.GroupItemHash # e2.GroupItemHash
    /\ (Planned /\ ~cfg.Force /\ AfterSuccess /\ Len(last[1].quoteList) = Len(quoteList)) =>
          \A i \in 1..Len(quoteList) :
              OnlyTagSetDiffers(last[1].quoteList[i], quoteList[i]) =>
                  /\ quoteList[i].ID \in plan.dirtyCards
                  /\ buildGroupKey(quoteList[i]) \in plan.dirtyGroups

====
